---- MODULE Spec2Model ----
(***************************************************************************)
(* Render-graph execution core of the engine: the RHI command list state   *)
(* machine (Vulkan back end), the Renderer tick / flush protocol and the   *)
(* dynamic constant buffers.                                               *)
(***************************************************************************)
EXTENDS Integers, Sequences, FiniteSets, TLC

VARIABLES
    cmd_lists,              \* Renderer::m_cmd_lists : index -> command list
    tex_layout,             \* RHI_Texture::m_layout : texture -> mip -> layout
    last,                   \* observation of the last command list call
    halted,                 \* an SP_ASSERT failed: the process has stopped
    rpc,                    \* render thread: position inside OnTick / Flush
    rret,                   \* render thread: where Flush returns to
    epc,                    \* external thread: position inside Renderer::Flush
    m_flush_requested,      \* Renderer::m_flush_requested (atomic)
    m_is_rendering_allowed, \* Renderer::m_is_rendering_allowed (atomic)
    m_cmd_index,            \* Renderer::m_cmd_index (uint32_t)
    m_frame_num,            \* Renderer::m_frame_num
    cb,                     \* the four dynamic constant buffers
    present_enabled,        \* RHI_SwapChain::PresentEnabled()
    m_swap_chain,           \* RHI_SwapChain::m_width, m_height
    window,                 \* the Window subsystem: minimised, width, height
    m_options,              \* Renderer::m_options : the options that are on
    m_render_targets,       \* Renderer::m_render_targets : slot -> texture
    m_entities,             \* Renderer::m_entities : object type -> entities
    m_camera,               \* Renderer::m_camera : the active camera
    m_material_instances,   \* Renderer::m_material_instances : slot -> material
    m_textures_mip_generation, \* Renderer::m_textures_mip_generation
    m_brdf_specular_lut_rendered, \* Renderer::m_brdf_specular_lut_rendered
    tex_flags,              \* RHI_Texture::m_flags of the textures with mips
    obs                     \* observations of the flush protocol and the tick

swp_vars == << present_enabled, m_swap_chain, window >>
wld_vars == << m_entities, m_camera >>
pas_vars == << m_material_instances, m_textures_mip_generation,
               m_brdf_specular_lut_rendered, tex_flags >>
scn_vars == << m_options, m_render_targets, wld_vars, pas_vars >>

vars == << cmd_lists, tex_layout, last, halted, rpc, rret, epc,
           m_flush_requested, m_is_rendering_allowed, m_cmd_index,
           m_frame_num, cb, swp_vars, scn_vars, obs >>

cmd_vars == << cmd_lists, tex_layout, last, halted >>
rnd_vars == << rpc, rret, epc, m_flush_requested, m_is_rendering_allowed,
               m_cmd_index, m_frame_num, cb, swp_vars, scn_vars, obs >>

----------------------------------------------------------------------------
(* Program constants and bounds                                            *)

m_swap_chain_buffer_count == 3
\* uint32_t values are kept as two 16-bit halves: value = hi * 2^16 + lo
Half == 65536
UINT32_MAX == [hi |-> Half - 1, lo |-> Half - 1]
U32(n) == [hi |-> 0, lo |-> n]
U32Inc(x) ==
    IF x.lo + 1 < Half THEN [hi |-> x.hi, lo |-> x.lo + 1]
    ELSE [hi |-> (x.hi + 1) % Half, lo |-> 0]
U32Mod(x, n) == ((x.hi % n) * (Half % n) + (x.lo % n)) % n
MipCount == 2
MaxUpdates == 3
MaxFrames == 1
\* ticks that fill the per-frame struct, one after the other
MaxTicks == 2
InitOffsetCount == 2

CmdIndices == 0 .. (m_swap_chain_buffer_count - 1)

RHI_CommandListState == {"Idle", "Recording", "Ended", "Submitted"}

RHI_Image_Layout ==
    {"Undefined", "General", "Preinitialized", "Color_Attachment_Optimal",
     "Depth_Stencil_Attachment_Optimal", "Depth_Stencil_Read_Only_Optimal",
     "Shader_Read_Only_Optimal", "Transfer_Src_Optimal", "Transfer_Dst_Optimal"}

\* Render targets handed to the command list (RENDER_TARGET(Frame_Render),
\* RENDER_TARGET(Frame_Render_2), RENDER_TARGET(Frame_Output)): colour,
\* sampled, storage, per-mip views.
Textures == {"rt1", "rt2", "frame_output"}
\* RENDER_TARGET(Gbuffer_Depth): depth-stencil, sampled, not storage
DepthTexture == "gbuffer_depth"
\* a texture that is still staging: its layout is Undefined
StagingTexture == "tex_staging"
FrameOutput == "frame_output"
DefaultTexture == "default"
NullTexture == "null"
\* RENDER_TARGET(Light_Diffuse), Light_Specular, Light_Volumetric and Ssao:
\* storage textures
LightTargets == {"light_diffuse", "light_specular", "light_volumetric"}
SsaoTexture == "ssao"
\* RENDER_TARGET(Gbuffer_Albedo), Gbuffer_Normal, Gbuffer_Material: colour
\* render targets that are sampled
GBufferTargets == {"gbuffer_albedo", "gbuffer_normal", "gbuffer_material"}
\* Light::GetDepthTexture : the shadow map of a light
LightDepthTexture == "light_depth"
\* RENDER_TARGET(Brdf_Specular_Lut): a storage texture
BrdfSpecularLutTexture == "brdf_specular_lut"
\* textures loaded with mips, per-mip views and the storage flag, which ask
\* for their mips to be generated
MipTextures == {"tex_mips_1", "tex_mips_2"}
AllTextures ==
    Textures \cup {DepthTexture, StagingTexture, DefaultTexture}
        \cup LightTargets \cup {SsaoTexture} \cup GBufferTargets
        \cup {LightDepthTexture, BrdfSpecularLutTexture} \cup MipTextures
Mips == 0 .. (MipCount - 1)
TexMipCount(t) == IF t = DefaultTexture THEN 1 ELSE MipCount
HasPerMipView(t) == t # DefaultTexture
IsDepthFormat(t) == t \in {DepthTexture, LightDepthTexture}
IsColorFormat(t) == ~IsDepthFormat(t)
IsUav(t) ==
    t \in Textures \cup LightTargets \cup {SsaoTexture, BrdfSpecularLutTexture}
             \cup MipTextures
IsSrv(t) == TRUE
BufferIds == {1}

\* Pipeline states the passes hand to BeginRenderPass.
\* clear_color: the render targets i with clear_color[i] != rhi_color_load ;
\* clear_depth: a depth or stencil clear value is set ; clear: HasClearValues
NoPipeline ==
    [name |-> "null", compute |-> FALSE, clear |-> FALSE, swapchain |-> FALSE,
     clear_color |-> {}, clear_depth |-> FALSE]
PsoCompute ==
    [name |-> "light", compute |-> TRUE, clear |-> FALSE, swapchain |-> FALSE,
     clear_color |-> {}, clear_depth |-> FALSE]
PsoSwapchain ==
    [name |-> "backbuffer", compute |-> FALSE, clear |-> TRUE, swapchain |-> TRUE,
     clear_color |-> {0}, clear_depth |-> FALSE]
\* Pass_GBuffer (opaque): four colour targets cleared to zero, depth cleared
PsoGBuffer ==
    [name |-> "gbuffer", compute |-> FALSE, clear |-> TRUE, swapchain |-> FALSE,
     clear_color |-> {0, 1, 2, 3}, clear_depth |-> TRUE]
PipelineStates == {PsoCompute, PsoSwapchain, PsoGBuffer}

----------------------------------------------------------------------------
(* RHI_CommandList : one call is a fold over a call context s              *)
(*   s.cl    the command list          s.tex   the texture layouts         *)
(*   s.ret   the call's return value   s.abort an SP_ASSERT failed         *)
(*   s.edges the m_state assignments made, in order                        *)
(*   s.rec   vkCmd* commands recorded  s.bar   layout barriers recorded    *)
(*   s.waits fence waits performed     s.bound texture put in the slot     *)

NewCommandList ==
    [state |-> "Idle", flushed |-> FALSE, render_pass_active |-> FALSE,
     pipeline |-> NoPipeline, pipeline_state |-> NoPipeline,
     pipeline_active |-> FALSE, vertex_buffer_id |-> 0, index_buffer_id |-> 0,
     gpu_pending |-> FALSE]

Call(c, t) ==
    [cl |-> c, tex |-> t, ret |-> TRUE, abort |-> FALSE, edges |-> << >>,
     rec |-> 0, bar |-> 0, waits |-> 0, bound |-> "none",
     errors |-> 0, null_deref |-> FALSE, begun |-> FALSE, cleared |-> << >>]

AssertFail(s) == [s EXCEPT !.abort = TRUE, !.ret = FALSE]
Return(s, r) == [s EXCEPT !.ret = r]
Record(s, n) == [s EXCEPT !.rec = @ + n]

SetState(s, st) ==
    [s EXCEPT !.cl.state = st, !.edges = Append(@, << s.cl.state, st >>)]

\* RHI_CommandList::Wait
Wait(s, fence_ok) ==
    IF s.cl.state # "Submitted" THEN AssertFail(s)
    ELSE IF ~fence_ok THEN AssertFail(s)
    ELSE SetState([s EXCEPT !.cl.gpu_pending = FALSE, !.waits = @ + 1], "Idle")

BeginSkipsWait(s, fence_ok, vk_ok) ==
    LET s1 == IF s.cl.state = "Submitted" THEN SetState(s, "Idle") ELSE s
    IN  IF s1.cl.state # "Idle" THEN AssertFail(s1)
        ELSE IF ~vk_ok THEN Return(s1, FALSE)
        ELSE Return(SetState(Record([s1 EXCEPT !.cl.flushed = FALSE], 1), "Recording"), TRUE)

\* RHI_CommandList::Begin
Begin(s, fence_ok, vk_ok) ==
    LET s1 == IF s.cl.state = "Submitted" THEN Wait(s, fence_ok) ELSE s
    IN  IF s1.abort THEN s1
        ELSE IF s1.cl.state # "Idle" THEN AssertFail(s1)
        ELSE IF ~vk_ok THEN Return(s1, FALSE)
        ELSE Return(SetState(Record([s1 EXCEPT !.cl.flushed = FALSE], 1), "Recording"), TRUE)

\* RHI_CommandList::End
End(s, vk_ok) ==
    IF s.cl.state # "Recording" THEN AssertFail(s)
    ELSE IF ~vk_ok THEN Return(s, FALSE)
    ELSE Return(SetState(s, "Ended"), TRUE)

SubmitSkippedGoesIdle(s, presenting, vk_ok) ==
    IF s.cl.state # "Ended" THEN AssertFail(s)
    ELSE IF s.cl.pipeline # NoPipeline /\ s.cl.pipeline.swapchain /\ ~presenting
         THEN Return(SetState(s, "Idle"), TRUE)
    ELSE IF ~vk_ok THEN Return(s, FALSE)
    ELSE Return(SetState([s EXCEPT !.cl.gpu_pending = TRUE], "Submitted"), TRUE)

\* RHI_CommandList::Submit
Submit(s, presenting, vk_ok) ==
    IF s.cl.state # "Ended" THEN AssertFail(s)
    ELSE IF s.cl.pipeline # NoPipeline /\ s.cl.pipeline.swapchain /\ ~presenting
         THEN Return(SetState(s, "Submitted"), TRUE)
    ELSE IF ~vk_ok THEN Return(s, FALSE)
    ELSE Return(SetState([s EXCEPT !.cl.gpu_pending = TRUE], "Submitted"), TRUE)

\* RHI_CommandList::Reset
Reset(s, vk_ok) ==
    IF s.cl.state # "Recording" THEN AssertFail(s)
    ELSE IF ~vk_ok THEN Return(s, FALSE)
    ELSE Return(SetState(s, "Idle"), TRUE)


\* RHI_CommandList::Flush ; env holds the outcomes of the Vulkan calls made
Flush(s, restore, env) ==
    IF s.cl.state = "Idle" THEN Return(s, TRUE)
    ELSE
    LET was_recording == s.cl.state = "Recording"
        s1 == IF was_recording THEN End(s, env.end_ok) ELSE s
    IN  IF s1.abort \/ (was_recording /\ ~s1.ret) THEN Return(s1, FALSE)
        ELSE
        LET s2 == IF s1.cl.state = "Ended"
                  THEN Submit(s1, env.presenting, env.submit_ok) ELSE s1
        IN  IF s2.abort \/ (s1.cl.state = "Ended" /\ ~s2.ret) THEN Return(s2, FALSE)
            ELSE
            LET s3 == Wait(s2, env.fence_ok)
            IN  IF s3.abort THEN s3
                ELSE
                LET s4 == IF restore /\ s3.cl.state = "Idle" /\ was_recording
                          THEN Begin(s3, env.fence_ok, env.begin_ok) ELSE s3
                IN  IF s4.abort THEN s4
                    ELSE Return([s4 EXCEPT !.cl.flushed = TRUE], TRUE)

\* Flush returns at the first call that fails, so at most one of them fails
AllOk(presenting) ==
    [end_ok |-> TRUE, presenting |-> presenting, submit_ok |-> TRUE,
     fence_ok |-> TRUE, begin_ok |-> TRUE]
FlushEnv ==
    UNION {{AllOk(p), [AllOk(p) EXCEPT !.end_ok = FALSE],
            [AllOk(p) EXCEPT !.submit_ok = FALSE],
            [AllOk(p) EXCEPT !.fence_ok = FALSE],
            [AllOk(p) EXCEPT !.begin_ok = FALSE]} : p \in BOOLEAN}

\* RHI_CommandList::BeginRenderPass ; pipeline_ok: the pipeline cache
\* returned a pipeline for pso
BeginRenderPass(s, pso, pipeline_ok) ==
    IF s.cl.state # "Recording" THEN AssertFail(s)
    ELSE IF ~pipeline_ok
         THEN Return([s EXCEPT !.cl.pipeline_active = FALSE,
                               !.cl.pipeline = NoPipeline], FALSE)
    ELSE Return([s EXCEPT !.cl.pipeline_active = FALSE,
                          !.cl.pipeline = pso,
                          !.cl.pipeline_state = pso,
                          !.cl.vertex_buffer_id = 0,
                          !.cl.index_buffer_id = 0], TRUE)

\* RHI_CommandList::Deferred_BeginRenderPass
Deferred_BeginRenderPass(s) ==
    IF s.cl.state # "Recording" THEN AssertFail(s)
    ELSE IF s.cl.pipeline = NoPipeline THEN AssertFail(s)
    ELSE Return(Record([s EXCEPT !.cl.render_pass_active = TRUE,
                                 !.begun = TRUE], 1), TRUE)

\* RHI_CommandList::ClearPipelineStateRenderTargets : s.cleared is the
\* attachments array handed to vkCmdClearAttachments ; every colour entry
\* is written with colorAttachment = 0
ClearPipelineStateRenderTargets(s, pso) ==
    IF s.cl.state # "Recording" THEN AssertFail(s)
    ELSE IF ~s.cl.render_pass_active THEN AssertFail(s)
    ELSE LET colour == [i \in 1 .. Cardinality(pso.clear_color) |->
                           [aspect |-> "color", colorAttachment |-> 0]]
             attachments ==
                 IF pso.clear_depth
                 THEN Append(colour, [aspect |-> "depth_stencil",
                                      colorAttachment |-> 0])
                 ELSE colour
         IN  IF Len(attachments) = 0 THEN s
             ELSE Record([s EXCEPT !.cleared = attachments], 1)

\* RHI_CommandList::EndRenderPass
EndRenderPass(s) ==
    LET s1 == IF s.cl.pipeline_state.clear /\ ~s.cl.render_pass_active
              THEN LET d == Deferred_BeginRenderPass(s)
                   IN  IF d.abort THEN d
                       ELSE ClearPipelineStateRenderTargets(d, s.cl.pipeline_state)
              ELSE s
    IN  IF s1.abort THEN s1
        ELSE IF s1.cl.render_pass_active
             THEN Return(Record([s1 EXCEPT !.cl.render_pass_active = FALSE], 1), TRUE)
        ELSE Return(s1, TRUE)

\* RHI_CommandList::Deferred_BindPipeline
Deferred_BindPipeline(s) ==
    IF s.cl.pipeline # NoPipeline
    THEN Return(Record([s EXCEPT !.cl.pipeline_active = TRUE], 1), TRUE)
    ELSE Return(s, FALSE)

\* RHI_CommandList::Deferred_BindDescriptorSet ; set is what
\* GetDescriptorSet hands back: "new", "bound" (nothing to bind) or "oom"
Deferred_BindDescriptorSet(s, set) ==
    IF s.cl.state # "Recording" THEN AssertFail(s)
    ELSE IF set = "new" THEN Return(Record(s, 1), TRUE)
    ELSE Return(s, set = "bound")

DescriptorSetResults == {"new", "bound", "oom"}

\* RHI_CommandList::OnDraw
OnDraw(s, set) ==
    IF s.cl.flushed THEN Return(s, FALSE)
    ELSE IF s.cl.state # "Recording" THEN AssertFail(s)
    ELSE
    LET s1 == IF ~s.cl.render_pass_active /\ ~s.cl.pipeline_state.compute
              THEN Deferred_BeginRenderPass(s) ELSE Return(s, TRUE)
    IN  IF s1.abort \/ ~s1.ret THEN Return(s1, FALSE)
        ELSE
        LET s2 == IF ~s1.cl.pipeline_active
                  THEN Deferred_BindPipeline(s1) ELSE Return(s1, TRUE)
        IN  IF s2.abort \/ ~s2.ret THEN Return(s2, FALSE)
            ELSE Deferred_BindDescriptorSet(s2, set)

\* RHI_CommandList::Draw, DrawIndexed and Dispatch share one shape
DrawCall(s, set) ==
    IF s.cl.state # "Recording" THEN AssertFail(s)
    ELSE LET s1 == OnDraw(s, set)
         IN  IF s1.abort \/ ~s1.ret THEN Return(s1, FALSE)
             ELSE Return(Record(s1, 1), TRUE)

Draw(s, set) == DrawCall(s, set)
DrawIndexed(s, set) == DrawCall(s, set)
Dispatch(s, set) == DrawCall(s, set)

----------------------------------------------------------------------------
(* RHI_Texture layouts and the command list calls that touch them          *)

SetLayoutAlwaysRecordsBarrier(s, t, new_layout, with_cmd_list, mip, ranged) ==
    LET mip_start == IF mip # -1 THEN mip ELSE 0
    IN  IF s.tex[t][mip_start] = "Undefined" THEN s
        ELSE [s EXCEPT !.rec = @ + 1, !.bar = @ + 1,
                       !.tex[t][mip_start] = new_layout]

\* RHI_Texture::SetLayout(new_layout, cmd_list, mip, ranged)
SetLayout(s, t, new_layout, with_cmd_list, mip, ranged) ==
    LET individual_mip_requested == mip # -1
        mip_start == IF individual_mip_requested THEN mip ELSE 0
        mip_range == IF ranged
                     THEN (IF individual_mip_requested
                           THEN TexMipCount(t) - mip ELSE TexMipCount(t))
                     ELSE 1
        current_layout == s.tex[t][mip_start]
    IN  IF individual_mip_requested /\ ~HasPerMipView(t) THEN AssertFail(s)
        ELSE IF current_layout = "Undefined" THEN s
        ELSE IF current_layout = new_layout THEN s
        ELSE LET s1 == IF with_cmd_list
                       THEN [s EXCEPT !.rec = @ + 1, !.bar = @ + 1] ELSE s
             IN  [s1 EXCEPT !.tex[t] =
                     [i \in DOMAIN @ |->
                         IF i >= mip_start /\ i < mip_start + mip_range
                         THEN new_layout ELSE @[i]]]

ClearRenderTargetRecordsNothing(s, t) ==
    IF s.cl.state # "Recording" THEN AssertFail(s) ELSE s

\* RHI_CommandList::ClearRenderTarget
ClearRenderTarget(s, t) ==
    IF s.cl.state # "Recording" THEN AssertFail(s)
    ELSE IF s.cl.render_pass_active THEN s
    ELSE IF t = NullTexture THEN s
    ELSE Record(SetLayout(s, t, "Transfer_Dst_Optimal", TRUE, -1, TRUE), 1)

\* RHI_CommandList::Blit : the loop that restores the initial layouts
RECURSIVE BlitRestore(_, _, _, _, _, _)
BlitRestore(s, source, destination, layouts_source, layouts_destination, i) ==
    IF s.abort \/ i >= TexMipCount(source) THEN s
    ELSE LET s1 == SetLayout(s, source, layouts_source[i], TRUE, i, TRUE)
             s2 == IF s1.abort THEN s1
                   ELSE SetLayout(s1, destination, layouts_destination[i], TRUE, i, TRUE)
         IN  BlitRestore(s2, source, destination,
                         layouts_source, layouts_destination, i + 1)

BlitLeavesTransferLayouts(s, source, destination) ==
    LET s1 == SetLayout(s, source, "Transfer_Src_Optimal", TRUE, -1, TRUE)
        s2 == SetLayout(s1, destination, "Transfer_Dst_Optimal", TRUE, -1, TRUE)
    IN  Record(s2, 1)

\* RHI_CommandList::Blit
Blit(s, source, destination) ==
    LET s1 == SetLayout(s, source, "Transfer_Src_Optimal", TRUE, -1, TRUE)
        s2 == SetLayout(s1, destination, "Transfer_Dst_Optimal", TRUE, -1, TRUE)
    IN  BlitRestore(Record(s2, 1), source, destination,
                    s.tex[source], s.tex[destination], 0)

SetTextureBindsWithoutTransition(s, texture, mip, ranged, uav, layout_set, crash) ==
    IF s.cl.state # "Recording" THEN AssertFail(s)
    ELSE IF ~layout_set THEN s
    ELSE [s EXCEPT !.bound = IF texture = NullTexture THEN DefaultTexture
                             ELSE texture]

SetTextureTransitionsInsideRenderPass(s, texture, mip, ranged, uav, layout_set, crash) ==
    IF s.cl.state # "Recording" THEN AssertFail(s)
    ELSE IF ~layout_set THEN s
    ELSE LET t0 == IF texture = NullTexture THEN DefaultTexture ELSE texture
             target_layout ==
                 IF uav THEN "General"
                 ELSE IF IsDepthFormat(t0) THEN "Depth_Stencil_Read_Only_Optimal"
                 ELSE "Shader_Read_Only_Optimal"
             s1 == SetLayout(s, t0, target_layout, TRUE, mip, ranged)
         IN  IF s1.abort THEN s1 ELSE [s1 EXCEPT !.bound = t0]

\* RHI_CommandList::SetTexture ; layout_set: the descriptor set layout
\* cache has a current layout ; crash: what reading through a null texture
\* pointer does in this build (it stops the process, or the call goes on)
SetTexture(s, texture, mip, ranged, uav, layout_set, crash) ==
    IF s.cl.state # "Recording" THEN AssertFail(s)
    ELSE IF texture # NullTexture /\ uav /\ ~IsUav(texture) THEN AssertFail(s)
    ELSE IF texture # NullTexture /\ ~uav /\ ~IsSrv(texture) THEN AssertFail(s)
    ELSE IF ~layout_set
         THEN (IF texture = NullTexture
               THEN [s EXCEPT !.null_deref = TRUE, !.abort = crash]
               ELSE s)
    ELSE
    LET t0 == IF texture = NullTexture THEN DefaultTexture ELSE texture
        individual_mip == mip # -1
        layout0 == s.tex[t0][IF individual_mip THEN mip ELSE 0]
        invalid == layout0 \in {"Undefined", "Preinitialized"}
        t1 == IF invalid THEN DefaultTexture ELSE t0
        s0 == IF invalid THEN [s EXCEPT !.errors = @ + 1] ELSE s
        current_layout == IF invalid THEN s.tex[DefaultTexture][0] ELSE layout0
        target_layout ==
            IF uav
            THEN (IF current_layout # "General" THEN "General" ELSE "Undefined")
            ELSE IF IsDepthFormat(t1) /\ current_layout # "Depth_Stencil_Read_Only_Optimal"
                 THEN "Depth_Stencil_Read_Only_Optimal"
            ELSE IF IsColorFormat(t1) /\ current_layout # "Shader_Read_Only_Optimal"
                 THEN "Shader_Read_Only_Optimal"
            ELSE "Undefined"
        transition_required == target_layout # "Undefined"
    IN  IF transition_required /\ ~s.cl.render_pass_active
        THEN LET s1 == SetLayout(s0, t1, target_layout, TRUE, mip, ranged)
             IN  IF s1.abort THEN s1 ELSE [s1 EXCEPT !.bound = t1]
        ELSE IF transition_required /\ s.cl.render_pass_active
             THEN [s0 EXCEPT !.bound = DefaultTexture, !.errors = @ + 1]
        ELSE [s0 EXCEPT !.bound = t1]

\* RHI_CommandList::SetBufferVertex
SetBufferVertex(s, buffer) ==
    IF s.cl.state # "Recording" THEN AssertFail(s)
    ELSE IF s.cl.vertex_buffer_id = buffer THEN s
    ELSE Record([s EXCEPT !.cl.vertex_buffer_id = buffer], 1)

\* RHI_CommandList::SetBufferIndex
SetBufferIndex(s, buffer) ==
    IF s.cl.state # "Recording" THEN AssertFail(s)
    ELSE IF s.cl.index_buffer_id = buffer THEN s
    ELSE Record([s EXCEPT !.cl.index_buffer_id = buffer], 1)

\* RHI_CommandList::SetConstantBuffer
SetConstantBuffer(s, layout_set) ==
    IF s.cl.state # "Recording" THEN AssertFail(s)
    ELSE s

----------------------------------------------------------------------------
(* Initial state                                                           *)

\* The render targets are storage textures, which GetAppropriateLayout puts
\* in General; the default texture is a sampled colour texture.

NoCall ==
    [op |-> "none", pre |-> "Idle", ret |-> TRUE, asserted |-> FALSE,
     edges |-> << >>, rec |-> 0, bar |-> 0, waits |-> 0, bound |-> "none",
     changed |-> FALSE, restore |-> FALSE, active |-> FALSE, begun |-> FALSE,
     cleared |-> << >>]

InitCmd ==
    /\ cmd_lists = [i \in CmdIndices |-> NewCommandList]
    /\ tex_layout = [t \in AllTextures |->
                       [m \in Mips |->
                           IF IsUav(t) THEN "General"
                           ELSE IF IsDepthFormat(t)
                           THEN "Depth_Stencil_Attachment_Optimal"
                           ELSE IF t = StagingTexture THEN "Undefined"
                           ELSE IF t \in GBufferTargets
                           THEN "Color_Attachment_Optimal"
                           ELSE "Shader_Read_Only_Optimal"]]
    /\ last = NoCall
    /\ halted = FALSE

----------------------------------------------------------------------------
(* Calls made on one command list by whoever holds it                      *)

\* the command list the calls of CmdNext are made on
TheList == 0

\* the state left by a call, and what the call was seen to do
Effect(i, op, s, restore) ==
    /\ cmd_lists' = [cmd_lists EXCEPT ![i] = s.cl]
    /\ tex_layout' = s.tex
    /\ halted' = s.abort
    /\ last' = [op |-> op, pre |-> cmd_lists[i].state, ret |-> s.ret,
                asserted |-> s.abort, edges |-> s.edges, rec |-> s.rec,
                bar |-> s.bar, waits |-> s.waits, bound |-> s.bound,
                changed |-> (s.cl # cmd_lists[i] \/ s.tex # tex_layout \/ s.rec > 0),
                restore |-> restore,
                active |-> cmd_lists[i].render_pass_active,
                begun |-> s.begun, cleared |-> s.cleared]

Entry(i) == Call(cmd_lists[i], tex_layout)

CallBegin ==
    /\ ~halted
    /\ \E fence_ok \in BOOLEAN, vk_ok \in BOOLEAN :
          Effect(TheList, "Begin", Begin(Entry(TheList), fence_ok, vk_ok), FALSE)
    /\ UNCHANGED rnd_vars

CallEnd ==
    /\ ~halted
    /\ \E vk_ok \in BOOLEAN :
          Effect(TheList, "End", End(Entry(TheList), vk_ok), FALSE)
    /\ UNCHANGED rnd_vars

CallSubmit ==
    /\ ~halted
    /\ \E presenting \in BOOLEAN, vk_ok \in BOOLEAN :
          Effect(TheList, "Submit", Submit(Entry(TheList), presenting, vk_ok), FALSE)
    /\ UNCHANGED rnd_vars

CallWait ==
    /\ ~halted
    /\ \E fence_ok \in BOOLEAN :
          Effect(TheList, "Wait", Wait(Entry(TheList), fence_ok), FALSE)
    /\ UNCHANGED rnd_vars

CallReset ==
    /\ ~halted
    /\ \E vk_ok \in BOOLEAN :
          Effect(TheList, "Reset", Reset(Entry(TheList), vk_ok), FALSE)
    /\ UNCHANGED rnd_vars

CallFlush ==
    /\ ~halted
    /\ \E restore \in BOOLEAN, env \in FlushEnv :
          Effect(TheList, "Flush", Flush(Entry(TheList), restore, env), restore)
    /\ UNCHANGED rnd_vars

CallBeginRenderPass ==
    /\ ~halted
    /\ \E pso \in PipelineStates, pipeline_ok \in BOOLEAN :
          Effect(TheList, "BeginRenderPass",
                 BeginRenderPass(Entry(TheList), pso, pipeline_ok), FALSE)
    /\ UNCHANGED rnd_vars

\* EndRenderPass reads m_pipeline_state, which a pass sets in BeginRenderPass
CallEndRenderPass ==
    /\ ~halted
    /\ cmd_lists[TheList].pipeline_state # NoPipeline
    /\ Effect(TheList, "EndRenderPass", EndRenderPass(Entry(TheList)), FALSE)
    /\ UNCHANGED rnd_vars

CallDraw ==
    /\ ~halted
    /\ cmd_lists[TheList].pipeline_state # NoPipeline
    /\ \E set \in DescriptorSetResults :
          Effect(TheList, "Draw", Draw(Entry(TheList), set), FALSE)
    /\ UNCHANGED rnd_vars

CallDrawIndexed ==
    /\ ~halted
    /\ cmd_lists[TheList].pipeline_state # NoPipeline
    /\ \E set \in DescriptorSetResults :
          Effect(TheList, "DrawIndexed", DrawIndexed(Entry(TheList), set), FALSE)
    /\ UNCHANGED rnd_vars

CallDispatch ==
    /\ ~halted
    /\ cmd_lists[TheList].pipeline_state # NoPipeline
    /\ \E set \in DescriptorSetResults :
          Effect(TheList, "Dispatch", Dispatch(Entry(TheList), set), FALSE)
    /\ UNCHANGED rnd_vars

CallClearRenderTarget ==
    /\ ~halted
    /\ \E t \in {"rt1"} :
          Effect(TheList, "ClearRenderTarget", ClearRenderTarget(Entry(TheList), t), FALSE)
    /\ UNCHANGED rnd_vars

CallBlit ==
    /\ ~halted
    /\ \E source \in {"rt1"}, destination \in {"rt2"} :
          Effect(TheList, "Blit", Blit(Entry(TheList), source, destination), FALSE)
    /\ UNCHANGED rnd_vars

CallSetTexture ==
    /\ ~halted
    /\ \E t \in {"rt1", NullTexture}, uav \in BOOLEAN :
          /\ t = NullTexture => ~uav
          /\ Effect(TheList, "SetTexture",
                    SetTexture(Entry(TheList), t, -1, FALSE, uav, TRUE, TRUE),
                    FALSE)
    /\ UNCHANGED rnd_vars

CallSetBufferVertex ==
    /\ ~halted
    /\ \E b \in BufferIds :
          Effect(TheList, "SetBufferVertex", SetBufferVertex(Entry(TheList), b), FALSE)
    /\ UNCHANGED rnd_vars

CallSetBufferIndex ==
    /\ ~halted
    /\ \E b \in BufferIds :
          Effect(TheList, "SetBufferIndex", SetBufferIndex(Entry(TheList), b), FALSE)
    /\ UNCHANGED rnd_vars

CallSetConstantBuffer ==
    /\ ~halted
    /\ Effect(TheList, "SetConstantBuffer", SetConstantBuffer(Entry(TheList), TRUE), FALSE)
    /\ UNCHANGED rnd_vars

\* the textures the passes bind and transition, a null pointer among them
BoundTextures == {"rt1", DepthTexture, StagingTexture, NullTexture}
\* mip arguments: -1 for no individual mip, the top mip, the first of the
\* rest of the mips (Pass_AMD_FidelityFX_SinglePassDowsnampler)
MipArgs == {-1, 0, 1}
\* the layouts callers of RHI_Texture::SetLayout ask for
RequestedLayouts(t) ==
    IF IsDepthFormat(t)
    THEN {"Depth_Stencil_Attachment_Optimal", "Depth_Stencil_Read_Only_Optimal"}
    ELSE {"General", "Shader_Read_Only_Optimal", "Color_Attachment_Optimal"}

\* the layout a binding needs: General for a storage binding, the read-only
\* layout of its format for a sampled one
RequiredLayout(t, uav) ==
    IF uav THEN "General"
    ELSE IF IsDepthFormat(t) THEN "Depth_Stencil_Read_Only_Optimal"
    ELSE "Shader_Read_Only_Optimal"

\* the mip whose layout a call with this mip argument reads
MipStart(mip) == IF mip = -1 THEN 0 ELSE mip

\* the state left by a SetTexture or SetLayout call on TheList, and what the
\* call was seen to do ; a: what it was called with ; observed: the texture
\* whose layout the call is about, at the mip the call reads ; already: the
\* layout asked for is the one the texture has
TexEffect(op, s, a, observed, mip, already) ==
    /\ cmd_lists' = [cmd_lists EXCEPT ![TheList] = s.cl]
    /\ tex_layout' = s.tex
    /\ halted' = s.abort
    /\ last' = [op |-> op, pre |-> cmd_lists[TheList].state, ret |-> s.ret,
                asserted |-> s.abort, edges |-> s.edges, rec |-> s.rec,
                bar |-> s.bar, waits |-> s.waits, bound |-> s.bound,
                changed |-> (s.cl # cmd_lists[TheList] \/ s.tex # tex_layout
                             \/ s.rec > 0),
                restore |-> FALSE,
                args |-> a,
                active |-> cmd_lists[TheList].render_pass_active,
                observed |-> observed,
                pre_layout |-> IF observed \in AllTextures
                               THEN tex_layout[observed][MipStart(mip)]
                               ELSE "none",
                post_layout |-> IF observed \in AllTextures
                                THEN s.tex[observed][MipStart(mip)]
                                ELSE "none",
                already |-> already,
                tex_same |-> s.tex = tex_layout,
                errors |-> s.errors, null_deref |-> s.null_deref]

\* a pass binds a texture: cmd_list->SetTexture(slot, texture, mip, ranged) ;
\* ranged comes with an individual mip ("rest of the mips"), an individual
\* mip with a render target
TexSetTexture ==
    /\ ~halted
    /\ \E t \in BoundTextures, mip \in MipArgs, ranged \in BOOLEAN,
          uav \in BOOLEAN, layout_set \in BOOLEAN, crash \in BOOLEAN :
          /\ mip # -1 => t \in Textures
          /\ ranged => mip # -1
          /\ ~layout_set => (mip = -1 /\ ~uav)
          /\ crash => (t = NullTexture /\ ~layout_set)
          /\ \E s \in {SetTexture(Entry(TheList), t, mip, ranged, uav,
                                  layout_set, crash)} :
                TexEffect("SetTexture", s,
                          [uav |-> uav, layout_set |-> layout_set,
                           null_texture |-> t = NullTexture, mip |-> mip],
                          s.bound, mip,
                          \/ t = NullTexture
                          \/ tex_layout[t][MipStart(mip)] = RequiredLayout(t, uav))
    /\ UNCHANGED rnd_vars

\* RHI_Texture::SetLayout called on a texture: with the list, on the whole
\* texture or from one mip on (ranged keeps its default), or without the
\* list on the whole texture (SetLayout(layout, nullptr))
TexSetLayout ==
    /\ ~halted
    /\ \E t \in BoundTextures \ {NullTexture}, mip \in MipArgs,
          with_cmd_list \in BOOLEAN :
       \E new_layout \in RequestedLayouts(t) :
          /\ mip # -1 => (t \in Textures /\ with_cmd_list)
          /\ TexEffect("SetLayout",
                       SetLayout(Entry(TheList), t, new_layout, with_cmd_list,
                                 mip, TRUE),
                       [uav |-> FALSE, layout_set |-> TRUE,
                        null_texture |-> FALSE, mip |-> mip],
                       t, mip, tex_layout[t][MipStart(mip)] = new_layout)
    /\ UNCHANGED rnd_vars

\* one list recording passes that bind textures and change their layouts
TexNext ==
    \/ CallBegin \/ CallBeginRenderPass \/ CallDraw \/ CallEndRenderPass
    \/ TexSetTexture \/ TexSetLayout

CmdNext ==
    \/ CallBegin \/ CallEnd \/ CallSubmit \/ CallWait \/ CallReset \/ CallFlush
    \/ CallBeginRenderPass \/ CallEndRenderPass
    \/ CallDraw \/ CallDrawIndexed \/ CallDispatch
    \/ CallClearRenderTarget \/ CallBlit \/ CallSetTexture
    \/ CallSetBufferVertex \/ CallSetBufferIndex \/ CallSetConstantBuffer

----------------------------------------------------------------------------
(* Dynamic constant buffers (Cb_Frame, Cb_Uber, Cb_Light, Cb_Material)     *)

CbNames == {"frame", "uber", "light", "material"}
\* values of a staging struct; 0 is the default-constructed struct
Values == {0, 1}
EmptySlot == -1

\* staging struct, last uploaded struct, Renderer's offset index, and the
\* GPU buffer: its offset count and its slots
NewConstantBuffer ==
    [cpu |-> 0, prev |-> 0, offset_index |-> 0, dynamic |-> TRUE,
     offset_count |-> InitOffsetCount,
     slots |-> [k \in 0 .. (InitOffsetCount - 1) |-> EmptySlot]]

\* Math::Helper::NextPowerOfTwo : the smallest power of two >= x
RECURSIVE PowerOfTwoFrom(_, _)
PowerOfTwoFrom(p, x) == IF p >= x THEN p ELSE PowerOfTwoFrom(2 * p, x)
NextPowerOfTwo(x) == PowerOfTwoFrom(1, x)

\* RHI_ConstantBuffer::Create<T>(offset_count) : a new buffer of that size
Create(b, offset_count) ==
    [b EXCEPT !.offset_count = offset_count,
              !.slots = [k \in 0 .. (offset_count - 1) |-> EmptySlot]]

\* the outcome of update_dynamic_buffer: the command list context, the
\* buffer, the return value and the number of command list flushes made.
\* Below, CHOOSE r \in { e(x) : x \in {v} } : TRUE is e(v) with v computed
\* once.
Updated(s, b, r, n) == [ctx |-> s, buf |-> b, ret |-> r, flushes |-> n]

grow_to_offset_index(s, b, env) ==
    IF b.dynamic /\ b.offset_index >= b.offset_count
    THEN CHOOSE r \in
            { IF s1.abort THEN Updated(s1, b, FALSE, 1)
              ELSE Updated(s1, Create(b, NextPowerOfTwo(b.offset_index)), TRUE, 1)
              : s1 \in {Flush(s, TRUE, env)} } : TRUE
    ELSE Updated(s, b, TRUE, 0)

\* update_dynamic_buffer, "Re-allocate buffer with double size (if needed)"
grow_dynamic_buffer(s, b, env) ==
    IF b.dynamic /\ b.offset_index >= b.offset_count
    THEN CHOOSE r \in
            { IF s1.abort THEN Updated(s1, b, FALSE, 1)
              ELSE Updated(s1, Create(b, NextPowerOfTwo(b.offset_index + 1)), TRUE, 1)
              : s1 \in {Flush(s, TRUE, env)} } : TRUE
    ELSE Updated(s, b, TRUE, 0)

\* update_dynamic_buffer, "Map", "Update", "Unmap"
write_dynamic_buffer(g) ==
    LET at == IF g.buf.dynamic THEN g.buf.offset_index ELSE 0
    IN  Updated(g.ctx, [g.buf EXCEPT !.slots[at] = g.buf.cpu, !.prev = g.buf.cpu],
                TRUE, g.flushes)

\* update_dynamic_buffer from "offset_index++" on
upload_dynamic_buffer(s, b, env) ==
    CHOOSE r \in
        { IF g.ctx.abort \/ ~g.ret THEN g ELSE write_dynamic_buffer(g)
          : g \in {grow_dynamic_buffer(s, [b EXCEPT !.offset_index = @ + 1], env)} }
        : TRUE

update_dynamic_buffer_always_uploads(s, b, env) ==
    upload_dynamic_buffer(s, b, env)

\* update_dynamic_buffer
update_dynamic_buffer(s, b, env) ==
    IF b.cpu = b.prev THEN Updated(s, b, TRUE, 0)
    ELSE upload_dynamic_buffer(s, b, env)

\* Renderer::Update_Cb_Frame, Update_Cb_Uber, Update_Cb_Light and
\* Update_Cb_Material: update the buffer and, when that worked, rebind it
Update_Cb(s, b, env) ==
    CHOOSE r \in
        { IF u.ctx.abort \/ ~u.ret THEN u
          ELSE [u EXCEPT !.ctx = SetConstantBuffer(u.ctx, TRUE)]
          : u \in {update_dynamic_buffer(s, b, env)} } : TRUE

----------------------------------------------------------------------------
(* Renderer : the render thread (OnTick, Flush, Present) and one external  *)
(* thread calling Renderer::Flush                                          *)

NullList == -1
\* Renderer::m_cmd_current : null until OnTick has selected a list, then
\* m_cmd_lists[m_cmd_index]
m_cmd_current == IF m_cmd_index = UINT32_MAX THEN NullList ELSE m_cmd_index.lo

\* outcomes of the Vulkan calls of one handler, with the swapchain as it is
RenderEnv == {e \in FlushEnv : e.presenting = present_enabled}

NoUpdate ==
    [name |-> "none", pre |-> NewConstantBuffer, pre_state |-> "Idle",
     flushes |-> 0, ret |-> TRUE, asserted |-> FALSE]
NoSelection ==
    [fresh |-> FALSE, prev |-> UINT32_MAX, offsets |-> [n \in CbNames |-> 0]]
\* what the tick that has just run did after selecting its list, until
\* another handler steps or the next tick starts: the scene it found, the
\* colour of the clear it recorded, the passes Pass_Main invoked
NoTick ==
    [scene |-> "none", clear |-> "none", passes |-> << >>,
     do_transparent_pass |-> FALSE]
\* what the last SetOption call was given and did ; what the last
\* Pass_PostProcess was run with and the calls it made
NoSetOption ==
    [option |-> "none", enable |-> FALSE, was_on |-> FALSE, recreations |-> 0]
NoPostProcess ==
    [ran |-> FALSE, log |-> << >>, resolution_output_larger |-> FALSE]
\* what the last pass of the tick was called with and seen to do
NoPass ==
    [name |-> "none", is_transparent_pass |-> FALSE, compiled |-> FALSE,
     pipeline_ok |-> FALSE, flushed |-> FALSE, requested |-> << >>,
     calls |-> << >>, errors |-> 0, capacity_errors |-> 0,
     asserted |-> FALSE, material_index |-> 0, oob |-> FALSE]

\* a tick that filled m_cb_frame_cpu : the camera and the options it read,
\* the struct it filled, m_cb_frame_offset_index before and after
\* Pass_UpdateFrameBuffer, and whether the struct was copied to the buffer
NoFrameBufferTick ==
    [ran |-> FALSE, view |-> 0, options |-> {},
     pipeline_ok |-> FALSE, cpu |-> 0, offset_before |-> 0,
     offset_after |-> 0, uploaded |-> FALSE]
\* the last two ticks, when both filled the struct and nothing but Present
\* ran in between
NoFrameBufferTicks ==
    [first |-> NoFrameBufferTick, second |-> NoFrameBufferTick]

\* the slots of the constant buffers the command lists have bound since
\* their last Begin: bound holds [list, name, slot] ; overwritten: the
\* bindings of lists still Submitted, their fence not waited for, to the
\* slot the last update copied a struct into
NoSlotUse == [bound |-> {}, overwritten |-> {}]

\* GetAppropriateLayout: the layout CreateResourceGpu leaves a texture in
GetAppropriateLayout(t) ==
    IF IsUav(t) THEN "General"
    ELSE IF IsDepthFormat(t) THEN "Depth_Stencil_Attachment_Optimal"
    ELSE IF t \in GBufferTargets THEN "Color_Attachment_Optimal"
    ELSE "Shader_Read_Only_Optimal"

\* the textures whose images are followed barrier by barrier
ImageTextures == {"rt1", StagingTexture}

\* the layout the image of a texture really has, mip by mip, and whether a
\* barrier so far named an old layout that some mip of its range was not in ;
\* a created texture was left in its appropriate layout, the image of a
\* texture not yet created has none
NoImage ==
    [real |-> [t \in ImageTextures |->
                 [m \in Mips |-> IF t = StagingTexture THEN "Undefined"
                                 ELSE GetAppropriateLayout(t)]],
     misnamed |-> FALSE]

\* the last world event handled: OnRenderablesAcquire ("acquired") or
\* OnClear ("clearing" until it returns, then "cleared"); flushed: the
\* Flush that OnClear called has returned
NoWorldEvent == [event |-> "none", flushed |-> FALSE]

NoObservation ==
    [updates |-> 0, upd |-> NoUpdate, sel |-> NoSelection,
     flush_idle_wait |-> FALSE, req_idle_wait |-> FALSE, req_cmd_flush |-> FALSE,
     tick |-> NoTick, opt |-> NoSetOption, post |-> NoPostProcess,
     world |-> NoWorldEvent, pass |-> NoPass,
     fb |-> NoFrameBufferTicks, slots |-> NoSlotUse, image |-> NoImage,
     lut_dispatched |-> FALSE]

\* the sizes the window takes
WindowWidths == {1, 2}
WindowHeights == {1}
Windows ==
    [minimised : BOOLEAN, width : WindowWidths, height : WindowHeights]
InitWindow == [minimised |-> FALSE, width |-> 1, height |-> 1]

\* OnTick: "Passing zero dimensions will cause the swapchain to not present
\* at all"
WindowWidth(w) == IF w.minimised THEN 0 ELSE w.width
WindowHeight(w) == IF w.minimised THEN 0 ELSE w.height

\* RHI_SwapChain::PresentEnabled after a resize to width x height: zero
\* dimensions disable presentation
PresentEnabled(width, height) == width # 0 /\ height # 0

\* RHI_SwapChain::Resize
Resize(sc, enabled, width, height) ==
    IF sc.width = width /\ sc.height = height
    THEN [sc |-> sc, present |-> enabled]
    ELSE [sc |-> [width |-> width, height |-> height],
          present |-> PresentEnabled(width, height)]

InitRnd ==
    /\ rpc = "idle" /\ rret = "idle" /\ epc = "idle"
    /\ m_flush_requested = FALSE
    /\ m_is_rendering_allowed = TRUE
    /\ m_cmd_index = UINT32_MAX
    /\ m_frame_num = 0
    /\ cb = [n \in CbNames |-> NewConstantBuffer]
    /\ present_enabled = TRUE
    /\ window = InitWindow
    /\ m_swap_chain = [width |-> WindowWidth(InitWindow),
                       height |-> WindowHeight(InitWindow)]
    /\ obs = NoObservation


\* the state a command list call leaves on list i
Apply(i, s) ==
    /\ cmd_lists' = [cmd_lists EXCEPT ![i] = s.cl]
    /\ tex_layout' = s.tex
    /\ halted' = s.abort
    /\ UNCHANGED last

OffsetIndices(buffers) == [n \in CbNames |-> buffers[n].offset_index]

SelectKeepsOffsets(index, buffers) ==
    [index |-> U32(U32Mod(U32Inc(index), m_swap_chain_buffer_count)),
     cb |-> buffers]

\* OnTick, "Acquire appropriate command list" and "Reset dynamic buffer
\* indices when we come back to the first command list"
SelectCommandList(index, buffers) ==
    LET next == U32(U32Mod(U32Inc(index), m_swap_chain_buffer_count))
    IN  [index |-> next,
         cb |-> IF next = U32(0)
                THEN [n \in CbNames |-> [buffers[n] EXCEPT !.offset_index = 0]]
                ELSE buffers]

\* OnTick up to the test of m_flush_requested
TickStart ==
    /\ ~halted /\ rpc = "idle"
    /\ IF m_flush_requested
       THEN rpc' = "flush_check" /\ rret' = "tick_gate"
       ELSE rpc' = "tick_gate" /\ UNCHANGED rret
    /\ obs' = [obs EXCEPT !.tick = NoTick]
    /\ UNCHANGED << cmd_vars, epc, m_flush_requested, m_is_rendering_allowed,
                    m_cmd_index, m_frame_num, cb, swp_vars,
                    scn_vars >>

\* Renderer::Flush called on the render thread outside OnTick
\* (SetViewport, OnClear)
DirectFlush ==
    /\ ~halted /\ rpc = "idle"
    /\ rpc' = "flush_check" /\ rret' = "idle"
    /\ obs' = [obs EXCEPT !.tick = NoTick]
    /\ UNCHANGED << cmd_vars, epc, m_flush_requested, m_is_rendering_allowed,
                    m_cmd_index, m_frame_num, cb, swp_vars,
                    scn_vars >>

\* Renderer::Flush on the render thread: the test of m_is_rendering_allowed
\* and Queue_WaitAll
FlushCheck ==
    /\ ~halted /\ rpc = "flush_check"
    /\ rpc' = "flush_cmd"
    /\ obs' = [obs EXCEPT
                 !.flush_idle_wait = ~m_is_rendering_allowed,
                 !.req_idle_wait = @ \/ (epc = "poll" /\ ~m_is_rendering_allowed)]
    /\ UNCHANGED << cmd_vars, rret, epc, m_flush_requested,
                    m_is_rendering_allowed, m_cmd_index, m_frame_num, cb,
                    swp_vars,
                    scn_vars >>

\* Renderer::Flush on the render thread: m_cmd_current->Flush(false)
FlushCmdList ==
    /\ ~halted /\ rpc = "flush_cmd"
    /\ rpc' = "flush_clear"
    /\ IF m_cmd_current # NullList
       THEN \E env \in RenderEnv :
               Apply(m_cmd_current, Flush(Entry(m_cmd_current), FALSE, env))
       ELSE UNCHANGED cmd_vars
    /\ obs' = [obs EXCEPT !.req_cmd_flush = @ \/ epc = "poll"]
    /\ UNCHANGED << rret, epc, m_flush_requested, m_is_rendering_allowed,
                    m_cmd_index, m_frame_num, cb, swp_vars,
                    scn_vars >>

\* Renderer::Flush on the render thread: m_flush_requested = false, return
FlushClear ==
    /\ ~halted /\ rpc = "flush_clear"
    /\ m_flush_requested' = FALSE
    /\ rpc' = rret /\ rret' = "idle"
    /\ obs' = [obs EXCEPT !.flush_idle_wait = FALSE,
                           !.world.flushed = @ \/ rret = "on_clear"]
    /\ UNCHANGED << cmd_vars, epc, m_is_rendering_allowed, m_cmd_index,
                    m_frame_num, cb, swp_vars,
                    scn_vars >>

TickGateIgnoresRenderingAllowed ==
    /\ ~halted /\ rpc = "tick_gate"
    /\ IF ~present_enabled
       THEN /\ rpc' = "idle"
            /\ UNCHANGED << cmd_vars, m_cmd_index, cb, obs, present_enabled,
                            m_swap_chain >>
       ELSE \E fence_ok \in BOOLEAN, vk_ok \in BOOLEAN :
               LET width == WindowWidth(window)
                   height == WindowHeight(window)
                   rs == IF \/ ~present_enabled
                            \/ m_swap_chain.width # width
                            \/ m_swap_chain.height # height
                         THEN Resize(m_swap_chain, present_enabled, width, height)
                         ELSE [sc |-> m_swap_chain, present |-> present_enabled]
                   sel == SelectCommandList(m_cmd_index, cb)
                   i == sel.index.lo
               IN  /\ m_swap_chain' = rs.sc
                   /\ present_enabled' = rs.present
                   /\ m_cmd_index' = sel.index
                   /\ cb' = sel.cb
                   /\ Apply(i, Begin(Entry(i), fence_ok, vk_ok))
                   /\ obs' = [obs EXCEPT !.sel =
                                 [fresh |-> TRUE, prev |-> m_cmd_index,
                                  offsets |-> OffsetIndices(cb)]]
                   /\ rpc' = "tick_scene"
    /\ UNCHANGED << rret, epc, m_flush_requested, m_is_rendering_allowed,
                    m_frame_num, window,
                    scn_vars >>

\* OnTick from the test of PresentEnabled and m_is_rendering_allowed to
\* m_cmd_current->Begin() : the early return, the resize of the swapchain to
\* the window, the selection of the command list
TickGate ==
    /\ ~halted /\ rpc = "tick_gate"
    /\ IF ~present_enabled \/ ~m_is_rendering_allowed
       THEN /\ rpc' = "idle"
            /\ UNCHANGED << cmd_vars, m_cmd_index, cb, obs, present_enabled,
                            m_swap_chain >>
       ELSE \E fence_ok \in BOOLEAN, vk_ok \in BOOLEAN :
               LET width == WindowWidth(window)
                   height == WindowHeight(window)
                   rs == IF \/ ~present_enabled
                            \/ m_swap_chain.width # width
                            \/ m_swap_chain.height # height
                         THEN Resize(m_swap_chain, present_enabled, width, height)
                         ELSE [sc |-> m_swap_chain, present |-> present_enabled]
                   sel == SelectCommandList(m_cmd_index, cb)
                   i == sel.index.lo
               IN  /\ m_swap_chain' = rs.sc
                   /\ present_enabled' = rs.present
                   /\ m_cmd_index' = sel.index
                   /\ cb' = sel.cb
                   /\ Apply(i, Begin(Entry(i), fence_ok, vk_ok))
                   /\ obs' = [obs EXCEPT !.sel =
                                 [fresh |-> TRUE, prev |-> m_cmd_index,
                                  offsets |-> OffsetIndices(cb)]]
                   /\ rpc' = "tick_scene"
    /\ UNCHANGED << rret, epc, m_flush_requested, m_is_rendering_allowed,
                    m_frame_num, window,
                    scn_vars >>

\* the window is resized, minimised or restored between two ticks
WindowChange ==
    /\ ~halted /\ rpc = "idle"
    /\ \E w \in Windows : w # window /\ window' = w
    /\ obs' = [obs EXCEPT !.tick = NoTick]
    /\ UNCHANGED << cmd_vars, rpc, rret, epc, m_flush_requested,
                    m_is_rendering_allowed, m_cmd_index, m_frame_num, cb,
                    present_enabled, m_swap_chain,
                    scn_vars >>

\* no camera ; a camera and the opaque, transparent and light buckets of
\* m_entities all empty ; a camera and some bucket not empty
Scenes == {"no_camera", "no_entities", "entities"}

\* the clear_color OnTick passes to ClearRenderTarget: Vector4(0, 0, 0, 1)
\* without a camera, m_camera->GetClearColor() with one
ClearColor(scene) ==
    IF scene = "no_camera" THEN "black" ELSE "camera_clear_color"

\* OnTick from "If there is no camera, clear to black" to the entry of
\* Pass_Main
TickScene ==
    /\ ~halted /\ rpc = "tick_scene"
    /\ \E scene \in Scenes :
          IF scene # "entities"
          THEN \E c \in {ClearRenderTarget(Entry(m_cmd_current), FrameOutput)} :
                  /\ Apply(m_cmd_current, c)
                  /\ obs' = [obs EXCEPT
                               !.sel = NoSelection,
                               !.tick = [scene |-> scene,
                                         clear |-> IF c.rec > 0 /\ ~c.abort
                                                   THEN ClearColor(scene)
                                                   ELSE "none",
                                         passes |-> << >>,
                                         do_transparent_pass |-> FALSE]]
                  /\ rpc' = "idle"
          ELSE /\ m_frame_num < MaxFrames
               /\ Apply(m_cmd_current,
                        IF cmd_lists[m_cmd_current].state # "Recording"
                        THEN AssertFail(Entry(m_cmd_current))
                        ELSE Entry(m_cmd_current))
               /\ obs' = [obs EXCEPT
                            !.sel = NoSelection,
                            !.tick = [scene |-> scene, clear |-> "none",
                                      passes |-> << >>,
                                      do_transparent_pass |-> FALSE]]
               /\ rpc' = "passes"
    /\ UNCHANGED << rret, epc, m_flush_requested, m_is_rendering_allowed,
                    m_cmd_index, m_frame_num, cb, swp_vars,
                    scn_vars >>

\* a pass of Pass_Main fills a staging struct and calls Update_Cb_*
UpdateCb ==
    /\ ~halted /\ rpc = "passes"
    /\ obs.updates < MaxUpdates
    /\ \E n \in CbNames, v \in Values, env \in RenderEnv :
          \E b \in {[cb[n] EXCEPT !.cpu = v]} :
          \E u \in {Update_Cb(Entry(m_cmd_current), b, env)} :
              /\ cb' = [cb EXCEPT ![n] = u.buf]
              /\ Apply(m_cmd_current, u.ctx)
              /\ obs' = [obs EXCEPT
                           !.updates = @ + 1,
                           !.upd = [name |-> n, pre |-> b,
                                    pre_state |-> cmd_lists[m_cmd_current].state,
                                    flushes |-> u.flushes, ret |-> u.ret,
                                    asserted |-> u.ctx.abort]]
    /\ UNCHANGED << rpc, rret, epc, m_flush_requested, m_is_rendering_allowed,
                    m_cmd_index, m_frame_num, swp_vars,
                    scn_vars >>

\* the options Pass_PostProcess reads (GetOption, Tonemapping != 0)
RendererOptions ==
    {"Render_DepthOfField", "Render_AntiAliasing_Taa", "Render_Upsample_TAA",
     "Render_Upsample_AMD_FidelityFX_SuperResolution", "Render_MotionBlur",
     "Render_Bloom", "Render_Sharpening_AMD_FidelityFX_ContrastAdaptiveSharpening",
     "Tonemapping", "Render_AntiAliasing_Fxaa", "Render_Dithering",
     "Render_FilmGrain", "Render_ChromaticAberration"}

\* the option sets a tick is run with: at most MaxOptions options on, or at
\* most MaxOptions options off
MaxOptions == 1
OptionSets ==
    {o \in SUBSET RendererOptions :
        \/ Cardinality(o) <= MaxOptions
        \/ Cardinality(RendererOptions \ o) <= MaxOptions}

\* a stage that runs only under its condition
Stage(enabled, name) == IF enabled THEN << name >> ELSE << >>

\* Renderer::Pass_PostProcess : the passes it invokes, in order
Pass_PostProcess(options, resolution_output_larger) ==
    LET taa == "Render_AntiAliasing_Taa" \in options
        taa_upsample == taa /\ "Render_Upsample_TAA" \in options
                            /\ resolution_output_larger
        fsr == "Render_Upsample_AMD_FidelityFX_SuperResolution" \in options
                  /\ resolution_output_larger
        upsampled == taa_upsample \/ fsr
    IN  Stage("Render_DepthOfField" \in options, "Pass_PostProcess_DepthOfField")
        \o Stage(taa, "Pass_PostProcess_TAA")
        \o Stage(fsr, "Pass_AMD_FidelityFX_SuperResolution")
        \o Stage(~upsampled, "Pass_Copy")
        \o Stage("Render_MotionBlur" \in options, "Pass_PostProcess_MotionBlur")
        \o Stage("Render_Bloom" \in options, "Pass_PostProcess_Bloom")
        \o Stage("Render_Sharpening_AMD_FidelityFX_ContrastAdaptiveSharpening" \in options,
                 "Pass_AMD_FidelityFX_ContrastAdaptiveSharpening")
        \o Stage("Tonemapping" \in options, "Pass_PostProcess_ToneMapping")
        \o Stage("Render_AntiAliasing_Fxaa" \in options, "Pass_PostProcess_Fxaa")
        \o Stage("Render_Dithering" \in options, "Pass_PostProcess_Dithering")
        \o Stage("Render_FilmGrain" \in options, "Pass_PostProcess_FilmGrain")
        \o Stage("Render_ChromaticAberration" \in options,
                 "Pass_PostProcess_ChromaticAberration")
        \o << "Pass_PostProcess_GammaCorrection", "Pass_Outline",
              "Pass_TransformHandle", "Pass_Lines", "Pass_Icons",
              "Pass_DebugBuffer", "Pass_Text" >>

Pass_Main_LightBeforeGBuffer(do_transparent_pass, options, resolution_output_larger) ==
    << "Pass_Generate_Mips", "Pass_UpdateFrameBuffer", "Pass_BrdfSpecularLut",
       "Pass_ShadowMaps", "Pass_Depth_Prepass", "Pass_Light", "Pass_GBuffer",
       "Pass_Ssao", "Pass_Ssr", "Pass_Light_Composition",
       "Pass_Light_ImageBased" >>
    \o Pass_PostProcess(options, resolution_output_larger)

\* Renderer::Pass_Main : the passes it invokes, in order ; "_Transparent"
\* marks a pass called with is_transparent_pass = true
Pass_Main(do_transparent_pass, options, resolution_output_larger) ==
    << "Pass_Generate_Mips", "Pass_UpdateFrameBuffer", "Pass_BrdfSpecularLut",
       "Pass_ShadowMaps" >>
    \o Stage(do_transparent_pass, "Pass_ShadowMaps_Transparent")
    \o << "Pass_Depth_Prepass", "Pass_GBuffer", "Pass_Ssao", "Pass_Ssr",
          "Pass_Light", "Pass_Light_Composition", "Pass_Light_ImageBased" >>
    \o (IF do_transparent_pass
        THEN << "Blit", "Pass_AMD_FidelityFX_SinglePassDowsnampler" >>
             \o [i \in 1 .. (MipCount - 1) |-> "Pass_Blur_Gaussian"]
             \o << "Pass_GBuffer_Transparent", "Pass_Light_Transparent",
                   "Pass_Light_Composition_Transparent",
                   "Pass_Light_ImageBased_Transparent" >>
        ELSE << >>)
    \o Pass_PostProcess(options, resolution_output_larger)

\* OnTick from Pass_Main to its end: the pass graph is recorded (its passes
\* by name, the Blit of the transparent stage on the list) and m_frame_num
\* advances
TickPasses ==
    /\ ~halted /\ rpc = "passes"
    /\ \E do_transparent_pass \in BOOLEAN, options \in OptionSets,
          resolution_output_larger \in BOOLEAN :
          /\ obs' = [obs EXCEPT
                       !.upd = NoUpdate,
                       !.tick.passes = Pass_Main(do_transparent_pass, options,
                                                 resolution_output_larger),
                       !.tick.do_transparent_pass = do_transparent_pass]
          /\ IF do_transparent_pass
             THEN Apply(m_cmd_current, Blit(Entry(m_cmd_current), "rt1", "rt2"))
             ELSE UNCHANGED cmd_vars
    /\ m_frame_num' = m_frame_num + 1
    /\ rpc' = "idle"
    /\ UNCHANGED << rret, epc, m_flush_requested, m_is_rendering_allowed,
                    m_cmd_index, cb, swp_vars,
                    scn_vars >>

\* OnTick after Pass_Main: m_frame_num++
TickEnd ==
    /\ ~halted /\ rpc = "passes"
    /\ m_frame_num' = m_frame_num + 1
    /\ rpc' = "idle"
    /\ obs' = [obs EXCEPT !.upd = NoUpdate, !.pass = NoPass]
    /\ UNCHANGED << cmd_vars, rret, epc, m_flush_requested,
                    m_is_rendering_allowed, m_cmd_index, cb, swp_vars,
                    scn_vars >>

\* Renderer::Present(m_cmd_current), called between ticks
Present ==
    /\ ~halted /\ rpc = "idle"
    /\ m_cmd_current # NullList
    /\ cmd_lists[m_cmd_current].state = "Recording"
    /\ \E env \in RenderEnv :
          LET s1 == End(Entry(m_cmd_current), env.end_ok)
          IN  Apply(m_cmd_current, Submit(s1, present_enabled, env.submit_ok))
    /\ obs' = [obs EXCEPT !.tick = NoTick]
    /\ UNCHANGED << rpc, rret, epc, m_flush_requested, m_is_rendering_allowed,
                    m_cmd_index, m_frame_num, cb, swp_vars,
                    scn_vars >>

\* Renderer::Flush on another thread: m_is_rendering_allowed = false
ExtFlushBegin ==
    /\ ~halted /\ epc \in {"idle", "returned"}
    /\ m_is_rendering_allowed' = FALSE
    /\ epc' = "request"
    /\ obs' = [obs EXCEPT !.req_idle_wait = FALSE, !.req_cmd_flush = FALSE,
                 !.tick = NoTick]
    /\ UNCHANGED << cmd_vars, rpc, rret, m_flush_requested, m_cmd_index,
                    m_frame_num, cb, swp_vars,
                    scn_vars >>

\* Renderer::Flush on another thread: m_flush_requested = true
ExtFlushRequest ==
    /\ ~halted /\ epc = "request"
    /\ m_flush_requested' = TRUE
    /\ epc' = "poll"
    /\ obs' = [obs EXCEPT !.tick = NoTick]
    /\ UNCHANGED << cmd_vars, rpc, rret, m_is_rendering_allowed, m_cmd_index,
                    m_frame_num, cb, swp_vars,
                    scn_vars >>

ExtFlushPollReturnsAtOnce ==
    /\ ~halted /\ epc = "poll"
    /\ epc' = "returned"
    /\ obs' = [obs EXCEPT !.tick = NoTick]
    /\ UNCHANGED << cmd_vars, rpc, rret, m_flush_requested,
                    m_is_rendering_allowed, m_cmd_index, m_frame_num, cb,
                    swp_vars,
                    scn_vars >>

\* Renderer::Flush on another thread: the loop on m_flush_requested is left
\* once the flag reads false, and the call returns
ExtFlushPoll ==
    /\ ~halted /\ epc = "poll"
    /\ ~m_flush_requested
    /\ epc' = "returned"
    /\ obs' = [obs EXCEPT !.tick = NoTick]
    /\ UNCHANGED << cmd_vars, rpc, rret, m_flush_requested,
                    m_is_rendering_allowed, m_cmd_index, m_frame_num, cb,
                    swp_vars,
                    scn_vars >>

\* Renderer::OnWorldLoaded, on the thread that loaded the world
OnWorldLoaded ==
    /\ ~halted /\ epc \in {"idle", "returned"}
    /\ ~m_is_rendering_allowed
    /\ m_is_rendering_allowed' = TRUE
    /\ epc' = "idle"
    /\ obs' = [obs EXCEPT !.req_idle_wait = FALSE, !.req_cmd_flush = FALSE,
                 !.tick = NoTick]
    /\ UNCHANGED << cmd_vars, rpc, rret, m_flush_requested, m_cmd_index,
                    m_frame_num, cb, swp_vars,
                    scn_vars >>

ExternalThread ==
    \/ ExtFlushBegin \/ ExtFlushRequest \/ ExtFlushPoll \/ OnWorldLoaded

----------------------------------------------------------------------------
(* The entities of the world                                               *)

\* the renderables of a world; renderable i lies at squared distance i from
\* the camera, so that no two renderables are equally far
MaxEntities == 3
EntityIds == 1 .. MaxEntities

\* an entity handed over by the world: whether it is active and which of
\* the components Renderable, Light and Camera it has; transparent: its
\* material's albedo has an alpha below 1
Renderable(i, transparent) ==
    [id |-> i, active |-> TRUE, renderable |-> TRUE,
     transparent |-> transparent, light |-> FALSE, camera |-> FALSE]
LightEntity ==
    [id |-> 0, active |-> TRUE, renderable |-> FALSE, transparent |-> FALSE,
     light |-> TRUE, camera |-> FALSE]
CameraEntity ==
    [id |-> 0, active |-> TRUE, renderable |-> FALSE, transparent |-> FALSE,
     light |-> FALSE, camera |-> TRUE]
InactiveEntity ==
    [id |-> 0, active |-> FALSE, renderable |-> TRUE, transparent |-> FALSE,
     light |-> TRUE, camera |-> TRUE]

\* the vectors of distinct renderables, in any order
RenderableVectors ==
    UNION { { v \in [1 .. n -> { Renderable(i, tr) :
                                   i \in EntityIds, tr \in BOOLEAN }] :
              \A a, b \in 1 .. n : a # b => v[a].id # v[b].id } :
            n \in 0 .. MaxEntities }

\* the vectors the world hands over: the renderables, with or without a
\* camera, a light and an inactive entity in front of them
Worlds ==
    { (IF c THEN << CameraEntity >> ELSE << >>)
      \o (IF l THEN << LightEntity >> ELSE << >>) \o v :
        c \in BOOLEAN, l \in BOOLEAN, v \in RenderableVectors }
      \cup { << InactiveEntity, CameraEntity >> }

\* the scenes that are loaded while the renderer ticks: nothing, a camera
\* alone, a camera, a light and every renderable, opaque and the farthest
\* first, and a camera, a light, a transparent and an opaque renderable
LoadedScenes ==
    { << >>, << CameraEntity >>,
      << CameraEntity, LightEntity >>
         \o [i \in 1 .. MaxEntities |-> Renderable(MaxEntities + 1 - i, FALSE)],
      << CameraEntity, LightEntity, Renderable(1, TRUE), Renderable(2, FALSE) >> }

\* m_camera
NullCamera == "nullptr"
ActiveCamera == "camera"

\* m_entities after clear(): every bucket is empty
NoEntities ==
    [GeometryOpaque |-> << >>, GeometryTransparent |-> << >>,
     Light |-> << >>, Camera |-> << >>]

\* comparison_op of RenderablesSort: the squared distance of the entity's
\* bounding box from the camera, 0 without a renderable
comparison_op(entity) == IF entity.renderable THEN entity.id ELSE 0

\* std::sort by comparison_op(a) < comparison_op(b)
RECURSIVE SortInsert(_, _)
SortInsert(entity, sorted) ==
    IF sorted = << >> THEN << entity >>
    ELSE IF comparison_op(entity) < comparison_op(Head(sorted))
    THEN << entity >> \o sorted
    ELSE << Head(sorted) >> \o SortInsert(entity, Tail(sorted))

RECURSIVE Sort(_)
Sort(renderables) ==
    IF renderables = << >> THEN << >>
    ELSE SortInsert(Head(renderables), Sort(Tail(renderables)))

\* Renderer::RenderablesSort
RenderablesSort(camera, renderables) ==
    IF camera = NullCamera \/ Len(renderables) <= 2 THEN renderables
    ELSE Sort(renderables)

\* the loop of OnRenderablesAcquire over entities[i ..]: w holds m_entities
\* and m_camera
RECURSIVE AcquireLoop(_, _, _)
AcquireLoop(w, entities, i) ==
    IF i > Len(entities) THEN w
    ELSE LET entity == entities[i]
             bucket == IF entity.transparent THEN "GeometryTransparent"
                       ELSE "GeometryOpaque"
             w1 == IF entity.renderable
                   THEN [w EXCEPT !.m_entities[bucket] = Append(@, entity)]
                   ELSE w
             w2 == IF entity.light
                   THEN [w1 EXCEPT !.m_entities.Light = Append(@, entity)]
                   ELSE w1
             w3 == IF entity.camera
                   THEN [w2 EXCEPT !.m_entities.Camera = Append(@, entity),
                                   !.m_camera = ActiveCamera]
                   ELSE w2
         IN  IF ~entity.active THEN AcquireLoop(w, entities, i + 1)
             ELSE AcquireLoop(w3, entities, i + 1)

\* Renderer::OnRenderablesAcquire
OnRenderablesAcquire(entities) ==
    LET w == AcquireLoop([m_entities |-> NoEntities, m_camera |-> NullCamera],
                         entities, 1)
    IN  [m_camera |-> w.m_camera,
         m_entities |->
            [w.m_entities EXCEPT
               !.GeometryOpaque = RenderablesSort(w.m_camera, @),
               !.GeometryTransparent = RenderablesSort(w.m_camera, @)]]

----------------------------------------------------------------------------
(* The passes that record on the command list                              *)

\* std::array<Material*, m_max_material_instances> m_material_instances
m_max_material_instances == 3
MaterialSlots == 0 .. (m_max_material_instances - 1)
NullMaterial == 0
NoMaterialInstances == [i \in MaterialSlots |-> NullMaterial]

\* Renderable::GetMaterial : every renderable has a material of its own
GetMaterial(entity) == entity.id

\* the flags of a texture that asks for mips, and what Pass_Generate_Mips
\* leaves of them
LoadedWithMips == [per_mip_views |-> TRUE, uav |-> TRUE]
WithoutMipFlags == [per_mip_views |-> FALSE, uav |-> FALSE]

\* a pass in progress: ctx the call context of the command list, cb the
\* constant buffers, calls what every call made on the list recorded, errors
\* the lines Pass_GBuffer logged for a full array, oob a write outside
\* m_material_instances
PassEntry(i) ==
    [ctx |-> Entry(i), cb |-> cb, calls |-> << >>, errors |-> 0,
     m_material_instances |-> m_material_instances,
     material_index |-> 0, material_bound_id |-> NullMaterial, oob |-> FALSE,
     tex_flags |-> tex_flags]

\* the calls a pass makes
ToCall(op) ==
    [op |-> op, tex |-> "none", mip |-> -1, ranged |-> FALSE, uav |-> FALSE,
     pso |-> NoPipeline, pipeline_ok |-> TRUE, name |-> "none", value |-> 0]
ToBeginRenderPass(pso, pipeline_ok) ==
    [ToCall("BeginRenderPass") EXCEPT !.pso = pso, !.pipeline_ok = pipeline_ok]
ToSetSrv(tex) == [ToCall("SetTexture") EXCEPT !.tex = tex]
ToSetUav(tex) == [ToCall("SetTexture") EXCEPT !.tex = tex, !.uav = TRUE]
ToSetSrvMip(tex, mip) ==
    [ToCall("SetTexture") EXCEPT !.tex = tex, !.mip = mip]
ToSetUavMips(tex, mip) ==
    [ToCall("SetTexture") EXCEPT !.tex = tex, !.mip = mip, !.ranged = TRUE,
                                 !.uav = TRUE]
ToClear(tex) == [ToCall("ClearRenderTarget") EXCEPT !.tex = tex]
ToUpdateCb(name, value) ==
    [ToCall("Update_Cb") EXCEPT !.name = name, !.value = value]

\* the descriptor set a draw of a pass gets, and the geometry buffers of
\* the model every renderable uses
PassDescriptorSet == "new"
GeometryBuffer == CHOOSE b \in BufferIds : TRUE

\* the command list after call c of a pass
CallOnList(g, c) ==
    CASE c.op = "BeginRenderPass" ->
            BeginRenderPass(g.ctx, c.pso, c.pipeline_ok)
      [] c.op = "EndRenderPass" -> EndRenderPass(g.ctx)
      [] c.op = "ClearRenderTarget" -> ClearRenderTarget(g.ctx, c.tex)
      [] c.op = "SetTexture" ->
            IF c.tex \in MipTextures /\ c.uav /\ ~g.tex_flags[c.tex].uav
            THEN AssertFail(g.ctx)
            ELSE SetTexture(g.ctx, c.tex, c.mip, c.ranged, c.uav, TRUE, TRUE)
      [] c.op = "SetBufferIndex" -> SetBufferIndex(g.ctx, GeometryBuffer)
      [] c.op = "SetBufferVertex" -> SetBufferVertex(g.ctx, GeometryBuffer)
      [] c.op = "DrawIndexed" -> DrawIndexed(g.ctx, PassDescriptorSet)
      [] c.op = "Dispatch" -> Dispatch(g.ctx, PassDescriptorSet)

\* what call c was seen to do: the commands and the errors it added
Seen(g, c, s) ==
    [op |-> c.op, tex |-> c.tex, ret |-> s.ret,
     rec |-> s.rec - g.ctx.rec, errors |-> s.errors - g.ctx.errors]

\* call c made by a pass: nothing is called once an SP_ASSERT has failed
DoCall(g, c) ==
    IF g.ctx.abort THEN g
    ELSE IF c.op = "Update_Cb"
    THEN CHOOSE r \in
            { [g EXCEPT !.ctx = [u.ctx EXCEPT !.ret = u.ret],
                        !.cb[c.name] = u.buf,
                        !.calls = Append(@, Seen(g, c, [u.ctx EXCEPT
                                                          !.ret = u.ret]))]
              : u \in {Update_Cb(g.ctx, [g.cb[c.name] EXCEPT !.cpu = c.value],
                                 AllOk(present_enabled))} } : TRUE
    ELSE CHOOSE r \in
            { [g EXCEPT !.ctx = s, !.calls = Append(@, Seen(g, c, s))]
              : s \in {CallOnList(g, c)} } : TRUE

\* the calls of script from position i on, one after the other
RECURSIVE RunCalls(_, _, _)
RunCalls(g, script, i) ==
    IF i > Len(script) THEN g
    ELSE CHOOSE r \in
            { RunCalls(DoCall(q, script[i]), script, i + 1) : q \in {g} } : TRUE

\* if (cmd_list->BeginRenderPass(pso)) { body ; cmd_list->EndRenderPass(); }
InRenderPass(g, pso, pipeline_ok, body) ==
    CHOOSE r \in
        { IF b.ctx.abort \/ ~b.ctx.ret THEN b
          ELSE RunCalls(b, Append(body, ToCall("EndRenderPass")), 1)
          : b \in {RunCalls(g, << ToBeginRenderPass(pso, pipeline_ok) >>, 1)} }
        : TRUE

PsoOf(name) == [PsoCompute EXCEPT !.name = name]

\* the values m_camera->GetViewMatrix() takes ; 0 is the matrix of the
\* default-constructed struct
CameraViews == {1, 2}

\* OnTick, "These must match what Common_Buffer.hlsl is reading" : the
\* options bit field of the struct
OptionsBits(options) ==
    IF "Render_Upsample_TAA" \in options THEN 2 ELSE 0

\* OnTick, "Update frame buffer" : m_cb_frame_cpu with its view, its options
\* bits and its frame = m_frame_num, the three fields written as the digits
\* of one number so that two structs are equal exactly when every field is
Cb_Frame(view, options, frame) ==
    view + 4 * OptionsBits(options) + 16 * frame

\* Renderer::Pass_UpdateFrameBuffer
Pass_UpdateFrameBuffer(g, cpu, pipeline_ok) ==
    InRenderPass(g, PsoOf("Pass_UpdateFrameBuffer"), pipeline_ok,
                 << ToUpdateCb("frame", cpu) >>)

\* Renderer::Pass_BrdfSpecularLut ; rendered: m_brdf_specular_lut_rendered
\* as the pass finds it ; the pass context and the flag as the pass leaves
\* them: the flag is stored when BeginRenderPass returned true
Pass_BrdfSpecularLut(g, rendered, compiled, pipeline_ok, v) ==
    IF g.ctx.abort \/ rendered \/ ~compiled
    THEN [pass |-> g, rendered |-> rendered]
    ELSE CHOOSE r \in
            { [pass |-> q,
               rendered |-> ~q.ctx.abort /\ q.calls[Len(g.calls) + 1].ret]
              : q \in {InRenderPass(g, PsoOf("Pass_BrdfSpecularLut"),
                                    pipeline_ok,
                                    << ToUpdateCb("uber", v),
                                       ToSetUav(BrdfSpecularLutTexture),
                                       ToCall("Dispatch") >>)} } : TRUE

\* Renderer::Pass_Copy
Pass_Copy(g, tex_in, tex_out, compiled, pipeline_ok, v) ==
    IF ~compiled THEN g
    ELSE InRenderPass(g, PsoOf("Pass_CopyBilinear"), pipeline_ok,
                      << ToUpdateCb("uber", v), ToSetUav(tex_out),
                         ToSetSrv(tex_in), ToCall("Dispatch") >>)

\* Light::GetShadowsEnabled, GetLightType: the light of the scenes is a
\* directional light that casts shadows, transparent ones too, into a shadow
\* map of one slice while its colour map is the default white texture
LightCalls(light, v) ==
    << ToUpdateCb("material", v),
       ToSetUav("light_diffuse"), ToSetUav("light_specular"),
       ToSetUav("light_volumetric"),
       ToSetSrv("gbuffer_albedo"), ToSetSrv("gbuffer_normal"),
       ToSetSrv("gbuffer_material"), ToSetSrv(DepthTexture),
       ToSetSrv(SsaoTexture),
       ToSetSrv(LightDepthTexture), ToSetSrv(DefaultTexture),
       ToUpdateCb("light", v), ToUpdateCb("uber", v),
       ToCall("Dispatch") >>

\* Renderer::Pass_Light, the loop over the lights from position i on ;
\* compiled: the variation of the light shader is compiled
RECURSIVE Pass_Light_Loop(_, _, _, _, _, _)
Pass_Light_Loop(g, lights, i, compiled, pipeline_ok, v) ==
    IF i > Len(lights) THEN g
    ELSE IF ~compiled
    THEN Pass_Light_Loop(g, lights, i + 1, compiled, pipeline_ok, v)
    ELSE Pass_Light_Loop(InRenderPass(g, PsoOf("Pass_Light_Opaque"),
                                      pipeline_ok, LightCalls(lights[i], v)),
                         lights, i + 1, compiled, pipeline_ok, v)

\* Renderer::Pass_Light(cmd_list, false)
Pass_Light(g, entities, compiled, pipeline_ok, v) ==
    IF entities.Light = << >> THEN g
    ELSE Pass_Light_Loop(
            RunCalls(g, << ToClear("light_diffuse"),
                           ToClear("light_specular"),
                           ToClear("light_volumetric") >>, 1),
            entities.Light, 1, compiled, pipeline_ok, v)

\* Pass_ShadowMaps: the pipeline state of the depth and of the colour pass
PsoShadowMaps(is_transparent_pass) ==
    [name |-> IF is_transparent_pass THEN "Pass_ShadowMaps_Color"
              ELSE "Pass_ShadowMaps_Depth",
     compute |-> FALSE, clear |-> TRUE, swapchain |-> FALSE,
     clear_color |-> {0}, clear_depth |-> ~is_transparent_pass]

\* the bucket a geometry pass draws
GeometryBucket(entities, is_transparent_pass) ==
    IF is_transparent_pass THEN entities.GeometryTransparent
    ELSE entities.GeometryOpaque

\* Renderer::Pass_ShadowMaps, the loop over the entities from position i on
\* and the EndRenderPass that follows it ; render_pass_active and
\* m_set_material_id are the locals of that name
RECURSIVE Pass_ShadowMaps_Entities(_, _, _, _, _, _, _, _)
Pass_ShadowMaps_Entities(g, renderables, i, render_pass_active, m_set_material_id, is_transparent_pass, pipeline_ok, v) ==
    IF i > Len(renderables)
    THEN (IF render_pass_active
          THEN RunCalls(g, << ToCall("EndRenderPass") >>, 1) ELSE g)
    ELSE
    LET material == GetMaterial(renderables[i])
        bind == is_transparent_pass /\ m_set_material_id # material
    IN  CHOOSE r \in
          { CHOOSE r2 \in
              { Pass_ShadowMaps_Entities(
                    IF g2.ctx.abort \/ ~g2.ctx.ret THEN g2
                    ELSE RunCalls(g2, << ToCall("DrawIndexed") >>, 1),
                    renderables, i + 1,
                    IF render_pass_active THEN TRUE ELSE g1.ctx.ret,
                    IF bind THEN material ELSE m_set_material_id,
                    is_transparent_pass, pipeline_ok, v)
                : g2 \in
                  {RunCalls(g1,
                      (IF bind THEN << ToSetSrv(DefaultTexture) >>
                       ELSE << >>)
                      \o << ToCall("SetBufferIndex"), ToCall("SetBufferVertex"),
                            ToUpdateCb("uber", v) >>, 1)} } : TRUE
            : g1 \in
              {IF render_pass_active THEN g
               ELSE RunCalls(g, << ToBeginRenderPass(
                                      PsoShadowMaps(is_transparent_pass),
                                      pipeline_ok) >>, 1)} } : TRUE

\* Renderer::Pass_ShadowMaps, the loop over the lights from position i on
RECURSIVE Pass_ShadowMaps_Lights(_, _, _, _, _, _, _)
Pass_ShadowMaps_Lights(g, lights, i, renderables, is_transparent_pass, pipeline_ok, v) ==
    IF i > Len(lights) THEN g
    ELSE Pass_ShadowMaps_Lights(
            Pass_ShadowMaps_Entities(g, renderables, 1, FALSE, NullMaterial,
                                     is_transparent_pass, pipeline_ok, v),
            lights, i + 1, renderables, is_transparent_pass, pipeline_ok, v)

\* Renderer::Pass_ShadowMaps ; compiled: Depth_Light_V and Depth_Light_P are
\* compiled
Pass_ShadowMaps(g, entities, is_transparent_pass, compiled, pipeline_ok, v) ==
    IF ~compiled THEN g
    ELSE IF GeometryBucket(entities, is_transparent_pass) = << >> THEN g
    ELSE Pass_ShadowMaps_Lights(g, entities.Light, 1,
                                GeometryBucket(entities, is_transparent_pass),
                                is_transparent_pass, pipeline_ok, v)

\* m_material_instances[material_index] = material
StoreMaterialInstance(g, material) ==
    IF g.material_index \in MaterialSlots
    THEN [g EXCEPT !.m_material_instances[g.material_index] = material]
    ELSE [g EXCEPT !.oob = TRUE]

\* the bookkeeping of Pass_GBuffer with the index advanced while it is
\* below the size of the array
KeepMaterialInstanceOffByOne(g, material) ==
    IF g.material_index < m_max_material_instances
    THEN StoreMaterialInstance([g EXCEPT !.material_index = @ + 1], material)
    ELSE [g EXCEPT !.errors = @ + 1]

\* Pass_GBuffer, "Keep track of used material instances": slot 0 is
\* reserved for the sky
KeepMaterialInstance(g, material) ==
    IF g.material_index + 1 < m_max_material_instances
    THEN StoreMaterialInstance([g EXCEPT !.material_index = @ + 1], material)
    ELSE [g EXCEPT !.errors = @ + 1]

\* Pass_GBuffer, "Bind material textures": the material of the scenes has
\* an albedo texture and no other
MaterialTextureCalls ==
    << ToSetSrv(DefaultTexture), ToSetSrv(NullTexture),
       ToSetSrv(NullTexture), ToSetSrv(NullTexture),
       ToSetSrv(NullTexture), ToSetSrv(NullTexture),
       ToSetSrv(NullTexture), ToSetSrv(NullTexture) >>

\* Pass_GBuffer, "Bind material"
BindMaterial(g, material) ==
    IF g.ctx.abort THEN g
    ELSE IF g.material_index = 0 \/ g.material_bound_id # material
    THEN RunCalls(KeepMaterialInstance(
                     [g EXCEPT !.material_bound_id = material], material),
                  MaterialTextureCalls, 1)
    ELSE g

\* Renderer::Pass_GBuffer, the loop over the entities from position i on ;
\* v: the content of the uber struct, the same for every draw of the pass
RECURSIVE Pass_GBuffer_Entities(_, _, _, _)
Pass_GBuffer_Entities(g, renderables, i, v) ==
    IF i > Len(renderables) THEN g
    ELSE CHOOSE r \in
            { Pass_GBuffer_Entities(
                  IF g2.ctx.abort \/ ~g2.ctx.ret THEN g2
                  ELSE RunCalls(g2, << ToCall("DrawIndexed") >>, 1),
                  renderables, i + 1, v)
              : g2 \in
                { RunCalls(BindMaterial(g1, GetMaterial(renderables[i])),
                           << ToUpdateCb("uber", v) >>, 1)
                  : g1 \in {RunCalls(g, << ToCall("SetBufferIndex"),
                                           ToCall("SetBufferVertex") >>, 1)} } }
            : TRUE

\* Pass_GBuffer: the pipeline state of the opaque and of the transparent
\* pass
PsoGBufferOf(is_transparent_pass) ==
    IF is_transparent_pass
    THEN [name |-> "gbuffer_transparent", compute |-> FALSE, clear |-> FALSE,
          swapchain |-> FALSE, clear_color |-> {}, clear_depth |-> FALSE]
    ELSE PsoGBuffer

\* Renderer::Pass_GBuffer ; compiled: Gbuffer_V is compiled ;
\* variation_compiled: the one variation of Gbuffer_P is compiled
Pass_GBuffer(g, entities, is_transparent_pass, compiled, variation_compiled, pipeline_ok, v) ==
    IF ~compiled THEN g
    ELSE IF ~variation_compiled
    THEN [g EXCEPT !.m_material_instances = NoMaterialInstances]
    ELSE CHOOSE r \in
            { IF b.ctx.abort \/ ~b.ctx.ret THEN b
              ELSE RunCalls(
                      Pass_GBuffer_Entities(
                          b, GeometryBucket(entities, is_transparent_pass),
                          1, v),
                      << ToCall("EndRenderPass") >>, 1)
              : b \in
                {RunCalls([g EXCEPT !.m_material_instances =
                                        NoMaterialInstances],
                          << ToBeginRenderPass(
                                PsoGBufferOf(is_transparent_pass),
                                pipeline_ok) >>, 1)} } : TRUE

\* Renderer::Pass_AMD_FidelityFX_SinglePassDowsnampler ; compiled:
\* AMD_FidelityFX_SPD_C is compiled
Pass_AMD_FidelityFX_SinglePassDowsnampler(g, tex, compiled, pipeline_ok, v) ==
    IF ~g.tex_flags[tex].per_mip_views THEN [g EXCEPT !.ctx = AssertFail(@)]
    ELSE IF TexMipCount(tex) - 1 > 12 THEN [g EXCEPT !.ctx = AssertFail(@)]
    ELSE IF ~compiled THEN g
    ELSE InRenderPass(g, PsoOf("Pass_AMD_FidelityFX_SinglePassDowsnampler"),
                      pipeline_ok,
                      << ToUpdateCb("uber", v), ToSetSrvMip(tex, 0),
                         ToSetUavMips(tex, 1),
                         [ToCall("Dispatch") EXCEPT !.tex = tex] >>)

\* Renderer::Pass_Generate_Mips, the loop over the textures from position i
RECURSIVE Pass_Generate_Mips_Loop(_, _, _, _, _, _)
Pass_Generate_Mips_Loop(g, textures, i, compiled, pipeline_ok, v) ==
    IF i > Len(textures) THEN g
    ELSE IF g.ctx.abort THEN g
    ELSE IF TexMipCount(textures[i]) <= 1
            \/ ~g.tex_flags[textures[i]].per_mip_views
    THEN [g EXCEPT !.ctx = AssertFail(@)]
    ELSE CHOOSE r \in
            { Pass_Generate_Mips_Loop(
                  IF d.ctx.abort THEN d
                  ELSE [d EXCEPT !.tex_flags[textures[i]] = WithoutMipFlags],
                  textures, i + 1, compiled, pipeline_ok, v)
              : d \in {Pass_AMD_FidelityFX_SinglePassDowsnampler(
                          g, textures[i], compiled, pipeline_ok, v)} } : TRUE

\* Renderer::Pass_Generate_Mips : the pass and the request list it leaves
Pass_Generate_Mips(g, textures, compiled, pipeline_ok, v) ==
    CHOOSE r \in
        { [pass |-> d,
           m_textures_mip_generation |->
               IF d.ctx.abort THEN textures ELSE << >>]
          : d \in {Pass_Generate_Mips_Loop(g, textures, 1, compiled,
                                           pipeline_ok, v)} } : TRUE

----------------------------------------------------------------------------
(* Renderer options and the post-process chain                             *)

\* Renderer::Renderer, "Options": the flags of RendererOptions that are on
\* after construction
InitOptions ==
    {"Render_Bloom", "Render_MotionBlur", "Render_AntiAliasing_Taa",
     "Render_Sharpening_AMD_FidelityFX_ContrastAdaptiveSharpening"}

\* the options the editor toggles through Renderer::SetOption
ToggledOptions ==
    {"Render_AntiAliasing_Taa", "Render_Upsample_TAA",
     "Render_Upsample_AMD_FidelityFX_SuperResolution",
     "Render_AntiAliasing_Fxaa", "Render_Bloom", "Render_DepthOfField"}

UpsamplingOptions ==
    {"Render_Upsample_TAA", "Render_Upsample_AMD_FidelityFX_SuperResolution"}

\* RENDER_TARGET(RendererRt::Frame_Render), Frame_Render_2, Frame_Output
\* and Frame_Output_2 : the slots Pass_PostProcess takes references to
InitRenderTargets ==
    [Frame_Render |-> "rt1", Frame_Render_2 |-> "rt2",
     Frame_Output |-> "frame_output", Frame_Output_2 |-> "frame_output_2"]

\* SetOption with the render targets recreated on every call
SetOptionAlwaysRecreates(options, option, enable) ==
    LET toggled == (enable /\ option \notin options)
                   \/ (~enable /\ option \in options)
    IN  [options |-> IF enable THEN options \cup {option}
                     ELSE options \ {option},
         toggled |-> toggled,
         recreations |-> 1]

\* Renderer::SetOption : the options after the call and the number of
\* CreateRenderTextures calls it made
SetOption(options, option, enable) ==
    LET toggled == (enable /\ option \notin options)
                   \/ (~enable /\ option \in options)
        after == IF enable /\ option \notin options THEN options \cup {option}
                 ELSE IF ~enable /\ option \in options THEN options \ {option}
                 ELSE options
    IN  [options |-> after,
         toggled |-> toggled,
         recreations |-> IF toggled /\ option \in UpsamplingOptions
                         THEN 1 ELSE 0]

PostStageNeverSwaps(p, name, slot_in, slot_out, swap, uncompiled) ==
    [rt |-> p.rt,
     log |-> Append(p.log,
                    [name |-> name, ran |-> name \notin uncompiled,
                     slot_in |-> slot_in, slot_out |-> slot_out,
                     tex_in |-> p.rt[slot_in], tex_out |-> p.rt[slot_out],
                     swapped |-> swap]),
     upsampled |-> p.upsampled]

\* one pass of the chain called with the textures of two slots: it records
\* its dispatch when its shaders are compiled ; swap: the caller swaps the
\* two slots when the call has returned
PostStage(p, name, slot_in, slot_out, swap, uncompiled) ==
    CHOOSE r \in
        { [rt |-> IF swap
                  THEN [q.rt EXCEPT ![slot_in] = q.rt[slot_out],
                                    ![slot_out] = q.rt[slot_in]]
                  ELSE q.rt,
           log |-> Append(q.log,
                          [name |-> name, ran |-> name \notin uncompiled,
                           slot_in |-> slot_in, slot_out |-> slot_out,
                           tex_in |-> q.rt[slot_in], tex_out |-> q.rt[slot_out],
                           swapped |-> swap]),
           upsampled |-> q.upsampled]
          : q \in {p} } : TRUE

\* Pass_PostProcess from "Motion Blur" to "Chromatic aberration": the option
\* of each stage and the pass it calls on the output resolution pair
OutputStages ==
    << << "Render_MotionBlur", "Pass_PostProcess_MotionBlur" >>,
       << "Render_Bloom", "Pass_PostProcess_Bloom" >>,
       << "Render_Sharpening_AMD_FidelityFX_ContrastAdaptiveSharpening",
          "Pass_AMD_FidelityFX_ContrastAdaptiveSharpening" >>,
       << "Tonemapping", "Pass_PostProcess_ToneMapping" >>,
       << "Render_AntiAliasing_Fxaa", "Pass_PostProcess_Fxaa" >>,
       << "Render_Dithering", "Pass_PostProcess_Dithering" >>,
       << "Render_FilmGrain", "Pass_PostProcess_FilmGrain" >>,
       << "Render_ChromaticAberration",
          "Pass_PostProcess_ChromaticAberration" >> >>

RECURSIVE PostOutputStages(_, _, _, _)
PostOutputStages(p, i, options, uncompiled) ==
    IF i > Len(OutputStages) THEN p
    ELSE PostOutputStages(
             IF OutputStages[i][1] \in options
             THEN PostStage(p, OutputStages[i][2], "Frame_Output",
                            "Frame_Output_2", TRUE, uncompiled)
             ELSE p,
             i + 1, options, uncompiled)

\* Renderer::Pass_PostProcess on the render target slots rt : the slots it
\* leaves and the calls it made, in order ; options as in Pass_PostProcess,
\* uncompiled: the passes whose shaders have not finished compiling
PostProcessSlots(options, resolution_output_larger, uncompiled, rt) ==
    LET p0 == [rt |-> rt, log |-> << >>, upsampled |-> FALSE]
        p1 == IF "Render_DepthOfField" \in options
              THEN PostStage(p0, "Pass_PostProcess_DepthOfField",
                             "Frame_Render", "Frame_Render_2", TRUE, uncompiled)
              ELSE p0
        p2 == IF "Render_AntiAliasing_Taa" \in options
              THEN IF "Render_Upsample_TAA" \in options
                      /\ resolution_output_larger
                   THEN [PostStage(p1, "Pass_PostProcess_TAA", "Frame_Render",
                                   "Frame_Output", FALSE, uncompiled)
                         EXCEPT !.upsampled = TRUE]
                   ELSE PostStage(p1, "Pass_PostProcess_TAA", "Frame_Render",
                                  "Frame_Render_2", TRUE, uncompiled)
              ELSE p1
        p3 == IF "Render_Upsample_AMD_FidelityFX_SuperResolution" \in options
                 /\ resolution_output_larger
              THEN [PostStage(p2, "Pass_AMD_FidelityFX_SuperResolution",
                              "Frame_Render", "Frame_Output", FALSE, uncompiled)
                    EXCEPT !.upsampled = TRUE]
              ELSE p2
        p4 == CHOOSE r \in
                 { IF ~q.upsampled
                   THEN PostStage(q, "Pass_Copy", "Frame_Render",
                                  "Frame_Output", FALSE, uncompiled)
                   ELSE q : q \in {p3} } : TRUE
        p5 == PostOutputStages(p4, 1, options, uncompiled)
        p6 == PostStage(p5, "Pass_PostProcess_GammaCorrection", "Frame_Output",
                        "Frame_Output_2", TRUE, uncompiled)
    IN  [rt |-> p6.rt, log |-> p6.log]

\* the passes whose shaders the model lets be still compiling
PostPasses ==
    {"Pass_PostProcess_DepthOfField", "Pass_PostProcess_TAA",
     "Pass_AMD_FidelityFX_SuperResolution", "Pass_Copy",
     "Pass_PostProcess_Bloom", "Pass_PostProcess_Fxaa",
     "Pass_PostProcess_GammaCorrection"}
MaxUncompiled == 1
UncompiledSets == {u \in SUBSET PostPasses : Cardinality(u) <= MaxUncompiled}

InitScn ==
    /\ m_options = InitOptions
    /\ m_render_targets = InitRenderTargets
    /\ m_entities = NoEntities
    /\ m_camera = NullCamera
    /\ m_material_instances = NoMaterialInstances
    /\ m_textures_mip_generation = << >>
    /\ m_brdf_specular_lut_rendered = FALSE
    /\ tex_flags = [t \in MipTextures |-> LoadedWithMips]

Init == InitCmd /\ InitRnd /\ InitScn

\* the editor calls Renderer::SetOption(option, enable)
CallSetOption ==
    /\ ~halted /\ rpc = "idle"
    /\ \E option \in ToggledOptions, enable \in BOOLEAN :
          \E r \in {SetOption(m_options, option, enable)} :
             /\ m_options' = r.options
             /\ obs' = [obs EXCEPT
                          !.opt = [option |-> option, enable |-> enable,
                                   was_on |-> option \in m_options,
                                   recreations |-> r.recreations],
                          !.post = NoPostProcess]
    /\ UNCHANGED << cmd_vars, rpc, rret, epc, m_flush_requested,
                    m_is_rendering_allowed, m_cmd_index, m_frame_num, cb,
                    swp_vars, m_render_targets, wld_vars, pas_vars >>

\* a tick reaches Pass_PostProcess with the options as they are
TickPostProcess ==
    /\ ~halted /\ rpc = "idle"
    /\ \E resolution_output_larger \in BOOLEAN, uncompiled \in UncompiledSets :
          \E r \in {PostProcessSlots(m_options, resolution_output_larger,
                                     uncompiled, m_render_targets)} :
             /\ m_render_targets' = r.rt
             /\ obs' = [obs EXCEPT
                          !.opt = NoSetOption,
                          !.post = [ran |-> TRUE, log |-> r.log,
                                    resolution_output_larger |->
                                        resolution_output_larger]]
    /\ UNCHANGED << cmd_vars, rpc, rret, epc, m_flush_requested,
                    m_is_rendering_allowed, m_cmd_index, m_frame_num, cb,
                    swp_vars, m_options, wld_vars, pas_vars >>

\* the editor changing options between ticks that post-process the frame
PostNext == CallSetOption \/ TickPostProcess

\* the world fires WorldResolved with one of the vectors of worlds:
\* OnRenderablesAcquire
Acquire(worlds) ==
    /\ ~halted /\ rpc = "idle"
    /\ \E entities \in worlds :
          \E w \in {OnRenderablesAcquire(entities)} :
             /\ m_entities' = w.m_entities
             /\ m_camera' = w.m_camera
    /\ obs' = [obs EXCEPT !.world = [event |-> "acquired", flushed |-> FALSE],
                          !.tick = NoTick]
    /\ UNCHANGED << cmd_vars, rpc, rret, epc, m_flush_requested,
                    m_is_rendering_allowed, m_cmd_index, m_frame_num, cb,
                    swp_vars, m_options, m_render_targets, pas_vars >>

\* a world of any entities is resolved
WorldResolved == Acquire(Worlds)

\* one of the scenes is resolved
SceneResolved == Acquire(LoadedScenes)

\* the world fires WorldPreClear: Renderer::OnClear calls Flush
OnClearBegin ==
    /\ ~halted /\ rpc = "idle"
    /\ rpc' = "flush_check" /\ rret' = "on_clear"
    /\ obs' = [obs EXCEPT !.world = [event |-> "clearing", flushed |-> FALSE],
                          !.tick = NoTick]
    /\ UNCHANGED << cmd_vars, epc, m_flush_requested, m_is_rendering_allowed,
                    m_cmd_index, m_frame_num, cb, swp_vars, scn_vars >>

\* Renderer::OnClear after Flush has returned: m_entities.clear(), return
OnClearEnd ==
    /\ ~halted /\ rpc = "on_clear"
    /\ m_entities' = NoEntities
    /\ rpc' = "idle"
    /\ obs' = [obs EXCEPT !.world.event = "cleared"]
    /\ UNCHANGED << cmd_vars, rret, epc, m_flush_requested,
                    m_is_rendering_allowed, m_cmd_index, m_frame_num, cb,
                    swp_vars, m_options, m_render_targets, m_camera,
                    pas_vars >>

\* a pass has returned: what it leaves on the command list, in the constant
\* buffers and in the renderer, and what it was seen to do
PassReturns(name, g, is_transparent_pass, compiled, pipeline_ok, next) ==
    /\ Apply(m_cmd_current, g.ctx)
    /\ rpc' = next
    /\ cb' = g.cb
    /\ m_material_instances' = g.m_material_instances
    /\ tex_flags' = g.tex_flags
    /\ obs' = [obs EXCEPT
                 !.pass = [name |-> name,
                           is_transparent_pass |-> is_transparent_pass,
                           compiled |-> compiled,
                           pipeline_ok |-> pipeline_ok,
                           flushed |-> cmd_lists[m_cmd_current].flushed,
                           requested |-> m_textures_mip_generation,
                           calls |-> g.calls,
                           errors |-> g.ctx.errors,
                           capacity_errors |-> g.errors,
                           asserted |-> g.ctx.abort,
                           material_index |-> g.material_index,
                           oob |-> g.oob]]
    /\ UNCHANGED << rret, epc, m_flush_requested, m_is_rendering_allowed,
                    m_cmd_index, m_frame_num, swp_vars, m_options,
                    m_render_targets, wld_vars >>

\* Pass_Main, "Determine if a transparent pass is required"
do_transparent_pass == m_entities.GeometryTransparent # << >>

\* Pass_Main has reached the pass at position pc ; OnTick calls Pass_Main
\* with a camera
PassGuard(pc) ==
    /\ ~halted /\ rpc = pc
    /\ m_camera # NullCamera

\* Pass_Main calls Pass_Generate_Mips
PassGenerateMips ==
    /\ PassGuard("passes")
    /\ \E compiled \in BOOLEAN, pipeline_ok \in BOOLEAN, v \in Values :
          \E r \in {Pass_Generate_Mips(PassEntry(m_cmd_current),
                                       m_textures_mip_generation,
                                       compiled, pipeline_ok, v)} :
             /\ PassReturns("Pass_Generate_Mips", r.pass, FALSE, compiled,
                            pipeline_ok, "pass_shadow_maps")
             /\ m_textures_mip_generation' = r.m_textures_mip_generation
    /\ UNCHANGED m_brdf_specular_lut_rendered

\* Pass_Main calls Pass_ShadowMaps for the opaque geometry, then for the
\* transparent geometry if there is any
PassShadowMaps ==
    /\ \E is_transparent_pass \in BOOLEAN, compiled \in BOOLEAN,
          pipeline_ok \in BOOLEAN, v \in Values :
          /\ PassGuard(IF is_transparent_pass THEN "pass_shadow_maps_color"
                       ELSE "pass_shadow_maps")
          /\ \E g \in {Pass_ShadowMaps(PassEntry(m_cmd_current), m_entities,
                                    is_transparent_pass, compiled,
                                    pipeline_ok, v)} :
             PassReturns("Pass_ShadowMaps", g, is_transparent_pass, compiled,
                         pipeline_ok,
                         IF ~is_transparent_pass /\ do_transparent_pass
                         THEN "pass_shadow_maps_color" ELSE "pass_gbuffer")
    /\ UNCHANGED << m_textures_mip_generation, m_brdf_specular_lut_rendered >>

\* Pass_Main calls Pass_GBuffer for the opaque geometry and, after the
\* light pass, for the transparent geometry if there is any
PassGBuffer ==
    /\ \E is_transparent_pass \in BOOLEAN, compiled \in BOOLEAN,
          variation_compiled \in BOOLEAN, pipeline_ok \in BOOLEAN,
          v \in Values :
          /\ PassGuard(IF is_transparent_pass THEN "pass_gbuffer_transparent"
                       ELSE "pass_gbuffer")
          /\ \E g \in {Pass_GBuffer(PassEntry(m_cmd_current), m_entities,
                                 is_transparent_pass, compiled,
                                 variation_compiled, pipeline_ok, v)} :
             PassReturns("Pass_GBuffer", g, is_transparent_pass,
                         compiled /\ variation_compiled, pipeline_ok,
                         IF is_transparent_pass THEN "pass_post_process"
                         ELSE "pass_light")
    /\ UNCHANGED << m_textures_mip_generation, m_brdf_specular_lut_rendered >>

\* Pass_Main calls Pass_Light for the opaque geometry
PassLight ==
    /\ PassGuard("pass_light")
    /\ \E compiled \in BOOLEAN, pipeline_ok \in BOOLEAN, v \in Values :
          \E g \in {Pass_Light(PassEntry(m_cmd_current), m_entities,
                               compiled, pipeline_ok, v)} :
             PassReturns("Pass_Light", g, FALSE, compiled, pipeline_ok,
                         IF do_transparent_pass
                         THEN "pass_gbuffer_transparent"
                         ELSE "pass_post_process")
    /\ UNCHANGED << m_textures_mip_generation, m_brdf_specular_lut_rendered >>

\* Pass_PostProcess calls Pass_Copy from the render to the output buffer ;
\* Pass_Main has then run its passes
PassCopy ==
    /\ PassGuard("pass_post_process")
    /\ \E compiled \in BOOLEAN, pipeline_ok \in BOOLEAN, v \in Values :
          \E g \in {Pass_Copy(PassEntry(m_cmd_current),
                              m_render_targets.Frame_Render,
                              m_render_targets.Frame_Output,
                              compiled, pipeline_ok, v)} :
             PassReturns("Pass_Copy", g, FALSE, compiled, pipeline_ok,
                         "passes_done")
    /\ UNCHANGED << m_textures_mip_generation, m_brdf_specular_lut_rendered >>

\* a texture loaded with mips asks for them: RequestTextureMipGeneration
RequestTextureMipGeneration ==
    /\ ~halted /\ rpc = "idle"
    /\ \E texture \in MipTextures :
          /\ tex_flags[texture].per_mip_views
          /\ \A k \in 1 .. Len(m_textures_mip_generation) :
                m_textures_mip_generation[k] # texture
          /\ m_textures_mip_generation' =
                Append(m_textures_mip_generation, texture)
    /\ obs' = [obs EXCEPT !.tick = NoTick]
    /\ UNCHANGED << cmd_vars, rpc, rret, epc, m_flush_requested,
                    m_is_rendering_allowed, m_cmd_index, m_frame_num, cb,
                    swp_vars, m_options, m_render_targets, wld_vars,
                    m_material_instances, m_brdf_specular_lut_rendered,
                    tex_flags >>

\* OnTick from "If there is no camera, clear to black" to
\* Pass_UpdateFrameBuffer, the second pass Pass_Main calls: the two clears
\* that end the tick, "Update frame buffer", and the update of the buffer
TickFrameBuffer ==
    /\ ~halted /\ rpc = "tick_scene"
    /\ IF \/ m_camera = NullCamera
          \/ /\ m_entities.GeometryOpaque = << >>
             /\ m_entities.GeometryTransparent = << >>
             /\ m_entities.Light = << >>
       THEN \E c \in {ClearRenderTarget(Entry(m_cmd_current), FrameOutput)} :
               /\ Apply(m_cmd_current, c)
               /\ obs' = [obs EXCEPT !.sel = NoSelection,
                                     !.fb = NoFrameBufferTicks]
               /\ rpc' = "idle"
               /\ UNCHANGED cb
       ELSE /\ m_frame_num < MaxTicks
            /\ \E view \in CameraViews, pipeline_ok \in BOOLEAN :
               \E cpu \in {Cb_Frame(view, m_options, m_frame_num)} :
               \E g \in {Pass_UpdateFrameBuffer(
                            [PassEntry(m_cmd_current) EXCEPT
                               !.cb["frame"].cpu = cpu],
                            cpu, pipeline_ok)} :
                  /\ Apply(m_cmd_current, g.ctx)
                  /\ cb' = g.cb
                  /\ obs' = [obs EXCEPT
                               !.sel = NoSelection,
                               !.fb = [first |-> @.second,
                                       second |->
                                         [ran |-> TRUE, view |-> view,
                                          options |-> m_options,
                                          pipeline_ok |-> pipeline_ok,
                                          cpu |-> cpu,
                                          offset_before |->
                                              cb["frame"].offset_index,
                                          offset_after |->
                                              g.cb["frame"].offset_index,
                                          uploaded |->
                                              g.cb["frame"].prev
                                                  # cb["frame"].prev]]]
                  /\ rpc' = "passes"
    /\ UNCHANGED << rret, epc, m_flush_requested, m_is_rendering_allowed,
                    m_cmd_index, m_frame_num, swp_vars, scn_vars >>

\* m_cb_uber_cpu.resolution_rt in Pass_BrdfSpecularLut: the size of the
\* texture, the same in every frame
BrdfSpecularLutResolution == CHOOSE v \in Values : v # 0

\* OnTick from "If there is no camera, clear to black" to
\* Pass_BrdfSpecularLut, the third pass Pass_Main calls: the two clears that
\* end the tick, "Update frame buffer", Pass_UpdateFrameBuffer and
\* Pass_BrdfSpecularLut (no texture has asked for its mips)
TickBrdfSpecularLut ==
    /\ ~halted /\ rpc = "tick_scene"
    /\ IF \/ m_camera = NullCamera
          \/ /\ m_entities.GeometryOpaque = << >>
             /\ m_entities.GeometryTransparent = << >>
             /\ m_entities.Light = << >>
       THEN \E c \in {ClearRenderTarget(Entry(m_cmd_current), FrameOutput)} :
               /\ Apply(m_cmd_current, c)
               /\ obs' = [obs EXCEPT !.sel = NoSelection]
               /\ rpc' = "idle"
               /\ UNCHANGED << cb, m_brdf_specular_lut_rendered >>
       ELSE /\ m_frame_num < MaxTicks
            /\ \E view \in CameraViews, pipeline_ok \in BOOLEAN,
                  compiled \in BOOLEAN, lut_pipeline_ok \in BOOLEAN :
               \E cpu \in {Cb_Frame(view, m_options, m_frame_num)} :
               \E g \in {Pass_UpdateFrameBuffer(
                            [PassEntry(m_cmd_current) EXCEPT
                               !.cb["frame"].cpu = cpu],
                            cpu, pipeline_ok)} :
               \E r \in {Pass_BrdfSpecularLut(g, m_brdf_specular_lut_rendered,
                                              compiled, lut_pipeline_ok,
                                              BrdfSpecularLutResolution)} :
                  /\ Apply(m_cmd_current, r.pass.ctx)
                  /\ cb' = r.pass.cb
                  /\ m_brdf_specular_lut_rendered' = r.rendered
                  /\ obs' = [obs EXCEPT
                               !.sel = NoSelection,
                               !.lut_dispatched =
                                  \/ @
                                  \/ \E k \in (Len(g.calls) + 1)
                                               .. Len(r.pass.calls) :
                                        /\ r.pass.calls[k].op = "Dispatch"
                                        /\ r.pass.calls[k].ret]
                  /\ rpc' = "passes"
    /\ UNCHANGED << rret, epc, m_flush_requested, m_is_rendering_allowed,
                    m_cmd_index, m_frame_num, swp_vars, m_options,
                    m_render_targets, wld_vars, m_material_instances,
                    m_textures_mip_generation, tex_flags >>

\* the passes of a tick on the scenes that are loaded
PassNext ==
    \/ TickStart \/ TickGate \/ TickScene
    \/ SceneResolved \/ RequestTextureMipGeneration
    \/ PassGenerateMips \/ PassShadowMaps \/ PassGBuffer \/ PassLight
    \/ PassCopy

\* worlds being resolved and cleared between ticks
WorldNext ==
    \/ WorldResolved \/ OnClearBegin \/ OnClearEnd
    \/ FlushCheck \/ FlushCmdList \/ FlushClear

\* the render thread ticking while scenes are resolved and cleared
ClearNext ==
    \/ SceneResolved \/ OnClearBegin \/ OnClearEnd
    \/ FlushCheck \/ FlushCmdList \/ FlushClear
    \/ TickStart \/ TickGate \/ TickScene \/ TickEnd \/ Present

\* the world is resolved with a camera and a light
CameraResolved == Acquire({<< CameraEntity, LightEntity >>})

\* the engine's loop calls OnTick once Present has been called for the tick
\* before
TickStartAfterPresent ==
    /\ obs.tick = NoTick
    /\ TickStart

\* Renderer::Present(m_cmd_current) on a list that is not Recording: nothing
\* is ended or submitted
PresentNotRecording ==
    /\ ~halted /\ rpc = "idle"
    /\ m_cmd_current # NullList
    /\ cmd_lists[m_cmd_current].state # "Recording"
    /\ obs' = [obs EXCEPT !.tick = NoTick]
    /\ UNCHANGED << cmd_vars, rpc, rret, epc, m_flush_requested,
                    m_is_rendering_allowed, m_cmd_index, m_frame_num, cb,
                    swp_vars, scn_vars >>

\* OnTick from "If there is no camera, clear to black" to the entry of
\* Pass_Main, on the list that TickGate has just begun: what the list had
\* bound before belongs to a recording that is over
RingTickScene ==
    /\ ~halted /\ rpc = "tick_scene"
    /\ \E scene \in Scenes :
          IF scene # "entities"
          THEN \E c \in {ClearRenderTarget(Entry(m_cmd_current), FrameOutput)} :
                  /\ Apply(m_cmd_current, c)
                  /\ obs' = [obs EXCEPT
                               !.sel = NoSelection,
                               !.tick = [scene |-> scene,
                                         clear |-> IF c.rec > 0 /\ ~c.abort
                                                   THEN ClearColor(scene)
                                                   ELSE "none",
                                         passes |-> << >>,
                                         do_transparent_pass |-> FALSE],
                               !.slots = [bound |-> {x \in @.bound :
                                                       x.list # m_cmd_current},
                                          overwritten |-> {}]]
                  /\ rpc' = "idle"
          ELSE /\ m_frame_num < MaxTicks
               /\ Apply(m_cmd_current,
                        IF cmd_lists[m_cmd_current].state # "Recording"
                        THEN AssertFail(Entry(m_cmd_current))
                        ELSE Entry(m_cmd_current))
               /\ obs' = [obs EXCEPT
                            !.sel = NoSelection,
                            !.tick = [scene |-> scene, clear |-> "none",
                                      passes |-> << >>,
                                      do_transparent_pass |-> FALSE],
                            !.slots = [bound |-> {x \in @.bound :
                                                    x.list # m_cmd_current},
                                       overwritten |-> {}]]
               /\ rpc' = "passes"
    /\ UNCHANGED << rret, epc, m_flush_requested, m_is_rendering_allowed,
                    m_cmd_index, m_frame_num, cb, swp_vars, scn_vars >>

\* the buffer the passes of RingNext update
RingBuffers == {"uber"}

\* a pass of Pass_Main fills the staging struct of a buffer and calls
\* Update_Cb_* : the slot the struct is copied into, the lists that bound
\* that slot and are still Submitted, and the binding the list records.
\* A buffer that Create has made anew has no slot bound ; a list that the
\* update flushed has been waited for
RingUpdateCb ==
    /\ ~halted /\ rpc = "passes"
    /\ obs.updates < MaxUpdates
    /\ \E n \in RingBuffers, v \in Values, env \in RenderEnv :
          \E b \in {[cb[n] EXCEPT !.cpu = v]} :
          \E u \in {Update_Cb(Entry(m_cmd_current), b, env)} :
          \E written \in {u.ret /\ ~u.ctx.abort
                             /\ u.buf.offset_index # b.offset_index} :
          \E created \in {u.buf.offset_count # b.offset_count} :
              /\ cb' = [cb EXCEPT ![n] = u.buf]
              /\ Apply(m_cmd_current, u.ctx)
              /\ obs' = [obs EXCEPT
                           !.updates = @ + 1,
                           !.slots =
                              [bound |->
                                 {x \in @.bound :
                                     /\ ~(created /\ x.name = n)
                                     /\ ~(u.flushes > 0
                                          /\ x.list = m_cmd_current)}
                                 \cup (IF written
                                       THEN {[list |-> m_cmd_current,
                                              name |-> n,
                                              slot |-> u.buf.offset_index]}
                                       ELSE {}),
                               overwritten |->
                                 IF written /\ ~created
                                 THEN {x \in @.bound :
                                         /\ x.name = n
                                         /\ x.slot = u.buf.offset_index
                                         /\ x.list # m_cmd_current
                                         /\ cmd_lists[x.list].state = "Submitted"
                                         /\ cmd_lists[x.list].gpu_pending}
                                 ELSE {}]]
    /\ UNCHANGED << rpc, rret, epc, m_flush_requested, m_is_rendering_allowed,
                    m_cmd_index, m_frame_num, swp_vars, scn_vars >>

\* the mips a SetLayout call with these arguments covers
MipRange(t, mip, ranged) ==
    IF ranged THEN (IF mip # -1 THEN TexMipCount(t) - mip ELSE TexMipCount(t))
    ELSE 1

\* vulkan_utility::image::set_layout as its callers use it: one barrier over
\* the mips mip_start .. mip_start + mip_range - 1 that names old_layout and
\* leaves them in new_layout
ImageSetLayout(img, t, mip_start, mip_range, old_layout, new_layout) ==
    LET range == {i \in Mips : i >= mip_start /\ i < mip_start + mip_range}
    IN  [real |-> [img.real EXCEPT ![t] =
                      [i \in Mips |-> IF i \in range THEN new_layout ELSE @[i]]],
         misnamed |-> img.misnamed \/ \E i \in range : img.real[t][i] # old_layout]

\* stage(texture) ; copy_ok: copy_to_staging_buffer ; begin_ok, end_ok: the
\* immediate command buffer, whose barrier is not executed when end fails
stage(s, img, t, copy_ok, begin_ok, end_ok) ==
    IF ~copy_ok THEN [ret |-> FALSE, ctx |-> s, img |-> img]
    ELSE IF ~begin_ok THEN [ret |-> TRUE, ctx |-> s, img |-> img]
    ELSE IF ~end_ok THEN [ret |-> FALSE, ctx |-> s, img |-> img]
    ELSE [ret |-> TRUE,
          ctx |-> SetLayout(s, t, "Transfer_Dst_Optimal", FALSE, -1, TRUE),
          img |-> ImageSetLayout(img, t, 0, TexMipCount(t), s.tex[t][0],
                                 "Transfer_Dst_Optimal")]

\* RHI_Texture::CreateResourceGpu, up to the creation of the image views ;
\* the same outcomes are taken for the two immediate command buffers
CreateResourceGpu(s, img, t, has_data, copy_ok, begin_ok, end_ok) ==
    LET staged == IF has_data THEN stage(s, img, t, copy_ok, begin_ok, end_ok)
                  ELSE [ret |-> TRUE, ctx |-> s, img |-> img]
        target_layout == GetAppropriateLayout(t)
    IN  IF ~staged.ret THEN staged
        ELSE IF ~begin_ok THEN staged
        ELSE IF ~end_ok THEN [staged EXCEPT !.ret = FALSE]
        ELSE [ret |-> TRUE,
              ctx |-> [staged.ctx EXCEPT !.tex[t] =
                          [i \in DOMAIN @ |-> target_layout]],
              img |-> ImageSetLayout(staged.img, t, 0, TexMipCount(t),
                                     staged.ctx.tex[t][0], target_layout)]

\* a texture that was loaded, or one without data, gets its GPU resource
CallCreateResourceGpu ==
    /\ ~halted
    /\ \E t \in {StagingTexture} :
          /\ \A m \in Mips : tex_layout[t][m] = "Undefined"
          /\ \A m \in Mips : obs.image.real[t][m] = "Undefined"
          /\ \E has_data \in BOOLEAN, copy_ok \in BOOLEAN,
                begin_ok \in BOOLEAN, end_ok \in BOOLEAN :
             \E r \in {CreateResourceGpu(Entry(TheList), obs.image, t, has_data,
                                         copy_ok, begin_ok, end_ok)} :
                /\ Effect(TheList, "CreateResourceGpu",
                          Return(r.ctx, r.ret), FALSE)
                /\ obs' = [obs EXCEPT !.image = r.img]
    /\ UNCHANGED << rpc, rret, epc, m_flush_requested, m_is_rendering_allowed,
                    m_cmd_index, m_frame_num, cb, swp_vars, scn_vars >>

\* RHI_Texture::SetLayout called with a command list, on the whole texture
\* or from one mip on, and the barrier it records
ImageTransition ==
    /\ ~halted
    /\ \E t \in ImageTextures, mip \in MipArgs :
       \E new_layout \in RequestedLayouts(t) :
       \E s \in {SetLayout(Entry(TheList), t, new_layout, TRUE, mip, TRUE)} :
          /\ Effect(TheList, "SetLayout", s, FALSE)
          /\ obs' = [obs EXCEPT !.image =
                        IF s.bar > 0
                        THEN ImageSetLayout(@, t, MipStart(mip),
                                            MipRange(t, mip, TRUE),
                                            tex_layout[t][MipStart(mip)],
                                            new_layout)
                        ELSE @]
    /\ UNCHANGED << rpc, rret, epc, m_flush_requested, m_is_rendering_allowed,
                    m_cmd_index, m_frame_num, cb, swp_vars, scn_vars >>

\* the two textures of a Blit
BlitTextures == {"rt1", "rt2"}

\* the layouts the textures of a Blit are left in by the calls before it:
\* those passes ask for, and the one ClearRenderTarget asks for
BlitLayouts(t) == RequestedLayouts(t) \cup {"Transfer_Dst_Optimal"}

\* RHI_Texture::SetLayout called with the list on a texture that is blitted
\* later, on the whole texture or from one mip on
BlitSetLayout ==
    /\ ~halted
    /\ \E t \in BlitTextures, mip \in MipArgs :
       \E new_layout \in BlitLayouts(t) :
          Effect(TheList, "SetLayout",
                 SetLayout(Entry(TheList), t, new_layout, TRUE, mip, TRUE),
                 FALSE)
    /\ UNCHANGED rnd_vars

\* one list on which textures change layout mip by mip and are blitted
BlitNext ==
    \/ CallBegin \/ CallBeginRenderPass \/ CallEndRenderPass
    \/ BlitSetLayout \/ CallBlit

\* textures are created and their layouts changed through a command list
ImageNext == CallCreateResourceGpu \/ ImageTransition

\* the ring of command lists: every tick is followed by Present, and the
\* passes of a tick update a constant buffer
RingNext ==
    \/ TickStartAfterPresent \/ TickGate \/ RingTickScene \/ RingUpdateCb
    \/ TickEnd \/ Present \/ PresentNotRecording

\* ticks that update the per-frame buffer, one after the other, with the
\* options as they are after construction
FrameBufferNext ==
    \/ CameraResolved
    \/ TickStart \/ TickGate \/ TickFrameBuffer \/ TickEnd \/ Present

\* ticks that run the passes up to Pass_BrdfSpecularLut, one after the other
BrdfSpecularLutNext ==
    \/ CameraResolved
    \/ TickStart \/ TickGate \/ TickBrdfSpecularLut \/ TickEnd \/ Present

SpecCmd == Init /\ [][CmdNext]_vars

SpecTex == Init /\ [][TexNext]_vars

SpecPost == Init /\ [][PostNext]_vars

SpecWorld == Init /\ [][WorldNext]_vars

SpecClear == Init /\ [][ClearNext]_vars

SpecPass == Init /\ [][PassNext]_vars

SpecFrameBuffer == Init /\ [][FrameBufferNext]_vars

SpecRing == Init /\ [][RingNext]_vars

SpecImage == Init /\ [][ImageNext]_vars

SpecBlit == Init /\ [][BlitNext]_vars

SpecBrdfSpecularLut == Init /\ [][BrdfSpecularLutNext]_vars

\* the render thread ticking, its passes updating the constant buffers
TickNext ==
    \/ TickStart \/ TickGate \/ TickScene \/ UpdateCb \/ TickEnd \/ Present

SpecTick == Init /\ [][TickNext]_vars

\* the render thread ticking through the pass graph while the window is
\* resized, minimised and restored
FrameNext ==
    \/ TickStart \/ TickGate \/ TickScene \/ TickPasses \/ Present
    \/ WindowChange

SpecFrame == Init /\ [][FrameNext]_vars

\* the steps OnTick and a started Flush take on the render thread
RenderSteps ==
    \/ TickStart \/ TickGate \/ TickScene \/ TickEnd
    \/ FlushCheck \/ FlushCmdList \/ FlushClear

\* the render thread ticking and flushing, and the external thread
FlushNext == RenderSteps \/ DirectFlush \/ Present \/ ExternalThread

SpecFlush == Init /\ [][FlushNext]_vars

\* the render thread keeps ticking (the engine calls OnTick every frame and
\* a started handler runs on), and the external thread's poll loop keeps
\* reading the flag every 16 ms
SpecFlushFair ==
    SpecFlush /\ WF_vars(RenderSteps) /\ WF_vars(ExtFlushPoll)


----------------------------------------------------------------------------
(* Properties of the command list state machine                            *)

TheState == cmd_lists[TheList].state

RecordingOps ==
    {"BeginRenderPass", "Draw", "DrawIndexed", "Dispatch", "ClearRenderTarget",
     "Blit", "SetTexture", "SetBufferVertex", "SetBufferIndex", "SetConstantBuffer"}

RequiredState(op) ==
    IF op = "Submit" THEN "Ended"
    ELSE IF op = "Wait" THEN "Submitted"
    ELSE "Recording"

\* C1: Submit only executes in Ended, Wait only in Submitted and every
\* recording operation only in Recording; a call made in any other state
\* stops on an assertion and changes nothing.
C1_CallsOutsideRequiredStateAssert ==
    (last.op \in RecordingOps \cup {"Submit", "Wait"}
        /\ last.pre # RequiredState(last.op))
    => (last.asserted /\ ~last.changed)

LifecycleEdges ==
    { << "Idle", "Recording" >>, << "Recording", "Ended" >>,
      << "Ended", "Submitted" >>, << "Submitted", "Idle" >> }

EdgesOf(call) == { call.edges[k] : k \in 1 .. Len(call.edges) }

\* C2 as stated: every change of m_state is one of Idle->Recording,
\* Recording->Ended, Ended->Submitted, Submitted->Idle.
C2_OnlyLifecycleEdges == EdgesOf(last) \subseteq LifecycleEdges

\* C2 as amended: every change of m_state is one of the four lifecycle
\* edges or Recording->Idle, and Recording->Idle is made by Reset only.
C2_LifecycleEdgesOrReset ==
    /\ EdgesOf(last) \subseteq LifecycleEdges \cup { << "Recording", "Idle" >> }
    /\ << "Recording", "Idle" >> \in EdgesOf(last) => last.op = "Reset"

C2_ResetWitness ==
    /\ last.op = "Reset" /\ last.ret
    /\ last.edges = << << "Recording", "Idle" >> >>
    /\ TheState = "Idle"

C4_FlushLeavesIdleOrRestores ==
    (last.op = "Flush" /\ last.ret /\ ~last.asserted)
    => IF last.pre = "Idle" THEN ~last.changed
       ELSE IF last.restore /\ last.pre = "Recording" THEN TheState = "Recording"
       ELSE TheState = "Idle"

----------------------------------------------------------------------------
(* Properties of the flush protocol                                        *)

\* C5: a Flush called on another thread raises m_flush_requested before it
\* waits, returns only on reading the flag false, so never while the flag
\* is set, and, the render thread ticking on, a waiting call eventually
\* returns (or the process has stopped on an assertion).
C5_ExternalFlushReturnsOnceServiced ==
    /\ [][(epc = "request" /\ epc' = "poll") => m_flush_requested']_vars
    /\ [][(epc = "poll" /\ epc' = "returned") => ~m_flush_requested]_vars
    /\ [](epc = "returned" => ~m_flush_requested)
    /\ (epc = "poll") ~> (epc = "returned" \/ halted)

C5_ServicedAndReturnedWitness ==
    /\ epc = "returned" /\ ~m_flush_requested /\ ~halted
    /\ obs.req_idle_wait /\ obs.req_cmd_flush

\* C6: when a Flush called on another thread has returned, the render
\* thread has, after m_flush_requested was raised, called Queue_WaitAll and
\* flushed the current command list.
C6_ExternalFlushReturnsAfterIdleWaitAndFlush ==
    epc = "returned" => (obs.req_idle_wait /\ obs.req_cmd_flush)

\* C7: a Flush on the render thread that is about to return has waited for
\* the GPU queues to become idle (Queue_WaitAll).
C7_RenderThreadFlushWaitsForIdle ==
    rpc = "flush_clear" => obs.flush_idle_wait

----------------------------------------------------------------------------
(* Properties of the tick and of the dynamic constant buffers              *)

ExpectedIndex(prev) ==
    IF prev = UINT32_MAX THEN 0
    ELSE (prev.lo + 1) % m_swap_chain_buffer_count

\* C8: the first selection picks index 0, every later one the index after
\* the previous one modulo the number of swapchain buffers; a selection that
\* makes the index 0 leaves the four offset indices 0, any other selection
\* leaves them as they were.
C8_RoundRobinSelectionResetsOffsets ==
    /\ m_cmd_index = UINT32_MAX
        \/ (m_cmd_index.hi = 0 /\ m_cmd_index.lo \in CmdIndices)
    /\ obs.sel.fresh =>
          /\ m_cmd_index = U32(ExpectedIndex(obs.sel.prev))
          /\ m_cmd_index = U32(0) => \A n \in CbNames : cb[n].offset_index = 0
          /\ m_cmd_index # U32(0) => OffsetIndices(cb) = obs.sel.offsets

C8_WrapResetsUsedOffsetsWitness ==
    /\ obs.sel.fresh /\ obs.sel.prev = U32(m_swap_chain_buffer_count - 1)
    /\ m_cmd_index = U32(0)
    /\ \E n \in CbNames : obs.sel.offsets[n] > 0
    /\ \A n \in CbNames : cb[n].offset_index = 0

\* C9: an update whose staging struct equals the last uploaded struct
\* leaves the offset index, the buffer's offset count and slots and the
\* stored previous struct as they were, flushes nothing and returns true.
C9_UnchangedStagingUploadsNothing ==
    (obs.upd.name # "none" /\ obs.upd.pre.cpu = obs.upd.pre.prev)
    => /\ cb[obs.upd.name] = obs.upd.pre
       /\ obs.upd.flushes = 0
       /\ obs.upd.ret
       /\ cmd_lists[m_cmd_current].state = obs.upd.pre_state

C9_RepeatedStructWitness ==
    /\ obs.upd.name # "none" /\ obs.upd.pre.cpu = obs.upd.pre.prev
    /\ obs.upd.pre.offset_index > 0
    /\ cb[obs.upd.name] = obs.upd.pre
    /\ ~halted

IsPowerOfTwo(c) == \E k \in 0 .. 16 : c = 2 ^ k

----------------------------------------------------------------------------
(* Properties of the frame: scene clears, presentation, the pass order     *)

\* C11: a tick that found no active camera has cleared the output target to
\* black and run no pass; a tick that found a camera but empty opaque,
\* transparent and light buckets has cleared the output target to the
\* camera's clear colour and run no pass (no shadow, G-buffer or lighting
\* pass among them).
C11_EmptySceneClearsAndRunsNoPass ==
    (rpc = "idle" /\ ~halted) =>
        /\ obs.tick.scene = "no_camera" =>
              (obs.tick.clear = "black" /\ obs.tick.passes = << >>)
        /\ obs.tick.scene = "no_entities" =>
              (obs.tick.clear = "camera_clear_color" /\ obs.tick.passes = << >>)

C11_ClearedToCameraColourWitness ==
    /\ rpc = "idle" /\ ~halted
    /\ obs.tick.scene = "no_entities"
    /\ obs.tick.clear = "camera_clear_color"
    /\ tex_layout[FrameOutput][0] = "Transfer_Dst_Optimal"

\* C12: a tick that reaches the test of PresentEnabled while presentation
\* is disabled (rendering being allowed) still selects the next command
\* list and goes on to record the frame.
C12_TickWhilePresentationDisabledStillRuns ==
    [][(TickGate /\ ~present_enabled /\ m_is_rendering_allowed) =>
          (/\ m_cmd_index' = SelectCommandList(m_cmd_index, cb).index
           /\ rpc' = "tick_scene")]_vars

\* C13: on every tick that finds the window's dimensions different from
\* the swapchain's, the swapchain is resized to the window's dimensions, and
\* a swapchain disabled by zero dimensions presents again after the first
\* tick that finds the window with a non-zero size.
C13_TickResizesSwapchainToWindow ==
    [][(/\ TickGate /\ m_is_rendering_allowed
        /\ \/ m_swap_chain.width # WindowWidth(window)
           \/ m_swap_chain.height # WindowHeight(window)) =>
          (/\ m_swap_chain' = [width |-> WindowWidth(window),
                               height |-> WindowHeight(window)]
           /\ (~window.minimised => present_enabled'))]_vars

\* the stages in the order the pass graph is specified to run them
StageOrder ==
    << {"Pass_Generate_Mips"},
       {"Pass_UpdateFrameBuffer"},
       {"Pass_ShadowMaps", "Pass_ShadowMaps_Transparent"},
       {"Pass_Depth_Prepass"},
       {"Pass_GBuffer"},
       {"Pass_Ssao"},
       {"Pass_Ssr"},
       {"Pass_Light"},
       {"Pass_Light_Composition"},
       {"Pass_Light_ImageBased"},
       {"Blit", "Pass_AMD_FidelityFX_SinglePassDowsnampler"},
       {"Pass_Blur_Gaussian"},
       {"Pass_GBuffer_Transparent"},
       {"Pass_Light_Transparent"},
       {"Pass_Light_Composition_Transparent"},
       {"Pass_Light_ImageBased_Transparent"},
       {"Pass_PostProcess_DepthOfField"},
       {"Pass_PostProcess_TAA", "Pass_AMD_FidelityFX_SuperResolution",
        "Pass_Copy"},
       {"Pass_PostProcess_MotionBlur"},
       {"Pass_PostProcess_Bloom"},
       {"Pass_AMD_FidelityFX_ContrastAdaptiveSharpening"},
       {"Pass_PostProcess_ToneMapping"},
       {"Pass_PostProcess_Fxaa"},
       {"Pass_PostProcess_Dithering"},
       {"Pass_PostProcess_FilmGrain"},
       {"Pass_PostProcess_ChromaticAberration"},
       {"Pass_PostProcess_GammaCorrection"},
       {"Pass_Outline", "Pass_TransformHandle", "Pass_Lines", "Pass_Icons",
        "Pass_DebugBuffer", "Pass_Text"} >>

\* the stages that belong to the transparent bucket
TransparentStages ==
    {"Pass_ShadowMaps_Transparent", "Blit",
     "Pass_AMD_FidelityFX_SinglePassDowsnampler", "Pass_Blur_Gaussian",
     "Pass_GBuffer_Transparent", "Pass_Light_Transparent",
     "Pass_Light_Composition_Transparent",
     "Pass_Light_ImageBased_Transparent"}

\* the position of a pass in StageOrder, 0 for a pass the order leaves out
\* (Pass_BrdfSpecularLut)
StageOf ==
    [pass \in UNION {StageOrder[k] : k \in DOMAIN StageOrder}
                 \cup {"Pass_BrdfSpecularLut"} |->
        IF \E k \in DOMAIN StageOrder : pass \in StageOrder[k]
        THEN CHOOSE k \in DOMAIN StageOrder : pass \in StageOrder[k]
        ELSE 0]

----------------------------------------------------------------------------
(* Properties of texture binding and layout transitions                    *)

\* C14: after SetTexture has bound a texture outside an active render pass,
\* the layout of the bound mip (mip 0 when no mip is given) is General for
\* a storage binding, Shader_Read_Only_Optimal for a sampled colour texture
\* and Depth_Stencil_Read_Only_Optimal for a sampled depth texture, and one
\* barrier was recorded if that layout had to change, none if it had not.
C14_BoundMipHasRequiredLayout ==
    (/\ last.op = "SetTexture" /\ ~last.asserted
     /\ last.args.layout_set /\ ~last.active /\ last.bound # "none") =>
        /\ last.post_layout = RequiredLayout(last.bound, last.args.uav)
        /\ last.bar = IF last.pre_layout # last.post_layout THEN 1 ELSE 0

C14_SampledDepthTransitionedWitness ==
    /\ last.op = "SetTexture" /\ ~last.asserted /\ ~last.active
    /\ last.bound = DepthTexture /\ ~last.args.uav
    /\ last.pre_layout = "Depth_Stencil_Attachment_Optimal"
    /\ last.post_layout = "Depth_Stencil_Read_Only_Optimal"
    /\ last.bar = 1

\* C15: SetTexture called while a render pass is active, for a texture whose
\* layout would have to change, records no barrier, leaves every layout as
\* it was, binds the default texture and logs an error.
C15_NoTransitionInsideRenderPass ==
    (/\ last.op = "SetTexture" /\ ~last.asserted
     /\ last.args.layout_set /\ last.active
     /\ ~last.args.null_texture /\ ~last.already) =>
        /\ last.bar = 0 /\ last.rec = 0
        /\ last.tex_same
        /\ last.bound = DefaultTexture
        /\ last.errors >= 1

C15_ColourTargetInsideRenderPassWitness ==
    /\ last.op = "SetTexture" /\ ~last.asserted
    /\ last.args.layout_set /\ last.active
    /\ ~last.args.null_texture /\ ~last.already /\ ~last.args.uav
    /\ tex_layout["rt1"][0] = "General"
    /\ last.bound = DefaultTexture /\ last.errors = 1

\* C16: SetTexture called with a null texture on a recording list ends with
\* the default texture bound to the slot, and has not read through the null
\* pointer.
C16_NullTextureReplacedByDefault ==
    (last.op = "SetTexture" /\ last.pre = "Recording" /\ last.args.null_texture)
        => (last.bound = DefaultTexture /\ ~last.null_deref)

\* C17: SetLayout called with the layout the texture already has records no
\* barrier, does not increment the profiler's barrier counter and changes
\* no tracked mip layout.
C17_SetLayoutWithCurrentLayoutIsNoOp ==
    (last.op = "SetLayout" /\ last.already) =>
        (last.rec = 0 /\ last.bar = 0 /\ last.tex_same /\ ~last.asserted)

C17_SameLayoutWitness ==
    /\ last.op = "SetLayout" /\ last.already
    /\ last.observed = "rt1" /\ last.args.mip = 1
    /\ last.pre_layout = "Shader_Read_Only_Optimal"
    /\ last.pre = "Recording"

\* C18: when a pass has bound a render target as storage (it is written in
\* General) and the next binding samples that target, whole or at the mip
\* that was written, exactly one layout barrier is recorded between the
\* write and the read.
C18_OneBarrierBetweenWriteAndRead ==
    [][(/\ last.op = "SetTexture" /\ ~last.asserted
        /\ last.args.uav /\ last.bound \in Textures
        /\ last.post_layout = "General"
        /\ last'.op = "SetTexture" /\ ~last'.asserted
        /\ ~last'.args.uav /\ last'.args.layout_set /\ ~last'.active
        /\ last'.bound = last.bound
        /\ last'.args.mip \in {-1, last.args.mip}) =>
          last'.bar = 1]_vars

----------------------------------------------------------------------------
(* Properties of the render pass scope                                     *)

\* the attachments a pipeline state declares a clear for: each colour
\* target that has a clear colour, and depth-stencil
DeclaredClears(pso) ==
    {[aspect |-> "color", colorAttachment |-> i] : i \in pso.clear_color}
    \cup (IF pso.clear_depth
          THEN {[aspect |-> "depth_stencil", colorAttachment |-> 0]} ELSE {})

\* C19: EndRenderPass on a pass that declared clear values and issued no
\* draw or dispatch (no render pass is active yet) has begun the render
\* pass, has recorded a clear for every render target the pass declared one
\* for, and leaves no render pass active.
C19_EndRenderPassClearsDeclaredTargets ==
    (/\ last.op = "EndRenderPass" /\ ~last.asserted
     /\ ~last.active /\ cmd_lists[TheList].pipeline_state.clear) =>
        /\ last.begun
        /\ {last.cleared[k] : k \in DOMAIN last.cleared}
              = DeclaredClears(cmd_lists[TheList].pipeline_state)
        /\ ~cmd_lists[TheList].render_pass_active

----------------------------------------------------------------------------
(* Properties of the options and the post-process chain                    *)

\* the two pairs of slots of one resolution that the chain ping-pongs
PingPongPairs ==
    {{"Frame_Render", "Frame_Render_2"}, {"Frame_Output", "Frame_Output_2"}}

\* C21: in the post-process chain the in/out buffers of a ping-pong pair
\* are swapped after a stage exactly when that stage ran and wrote its
\* output; a stage that did not run because its shader is not compiled
\* leaves the buffer roles as they were.
C21_SwapExactlyWhenStageRan ==
    \A i \in DOMAIN obs.post.log :
        LET e == obs.post.log[i]
        IN  {e.slot_in, e.slot_out} \in PingPongPairs =>
                (e.swapped <=> e.ran)

\* the passes of the last Pass_PostProcess that recorded their work into
\* the output resolution slot from the render resolution slot
WroteOutputFromRender(name) ==
    \E i \in DOMAIN obs.post.log :
        /\ obs.post.log[i].name = name /\ obs.post.log[i].ran
        /\ obs.post.log[i].slot_in = "Frame_Render"
        /\ obs.post.log[i].slot_out = "Frame_Output"

\* C22: for every setting of the options at most one of the two upsamplers
\* (TAA writing the output buffer, FSR) writes the output resolution buffer
\* in a frame, and the plain copy runs only when neither upsampler ran.
C22_AtMostOneUpsamplerWritesOutput ==
    /\ ~(/\ WroteOutputFromRender("Pass_PostProcess_TAA")
         /\ WroteOutputFromRender("Pass_AMD_FidelityFX_SuperResolution"))
    /\ WroteOutputFromRender("Pass_Copy") =>
          /\ ~WroteOutputFromRender("Pass_PostProcess_TAA")
          /\ ~WroteOutputFromRender("Pass_AMD_FidelityFX_SuperResolution")

----------------------------------------------------------------------------
(* Properties of the entities                                              *)

SortedByDistance(renderables) ==
    \A a, b \in 1 .. Len(renderables) :
        a < b => comparison_op(renderables[a]) <= comparison_op(renderables[b])

\* C28: once the renderables have been acquired with an active camera, the
\* opaque and the transparent bucket are each ordered by non-decreasing
\* distance from the camera, whatever the size of the bucket
C28_BucketsSortedByDistance ==
    (obs.world.event = "acquired" /\ m_camera # NullCamera)
        => /\ SortedByDistance(m_entities.GeometryOpaque)
           /\ SortedByDistance(m_entities.GeometryTransparent)

\* C29: when the handler of the world's pre-clear event has returned, the
\* flush it called has completed, every bucket of entities is empty and the
\* reference to the active camera is cleared
C29_ClearEmptiesBucketsAndCamera ==
    obs.world.event = "cleared"
        => /\ obs.world.flushed
           /\ m_entities = NoEntities
           /\ m_camera = NullCamera

----------------------------------------------------------------------------
(* Properties of the passes                                                *)

\* the calls of the last pass that satisfy P
CallsOf(P(_)) == { k \in 1 .. Len(obs.pass.calls) : P(obs.pass.calls[k]) }

IsDrawOrDispatch(call) == call.op \in {"DrawIndexed", "Dispatch"}
IsBinding(call) ==
    \/ call.op = "SetTexture"
    \/ call.op \in {"SetBufferIndex", "SetBufferVertex"} /\ call.rec > 0
IsFailedBegin(call) == call.op = "BeginRenderPass" /\ ~call.ret

\* C23: a pass whose shader has not finished compiling records nothing on
\* the command list, no clear, no render pass, no binding, no draw and no
\* dispatch, and raises no error
C23_UncompiledPassRecordsNothing ==
    (obs.pass.name # "none" /\ ~obs.pass.compiled)
        => /\ obs.pass.calls = << >>
           /\ obs.pass.errors = 0
           /\ ~obs.pass.asserted

\* C24: when BeginRenderPass returns false the pass records no draw, no
\* dispatch and no binding of a resource for the rest of the pass, and the
\* tick goes on to the next pass
C24_FailedBeginRecordsNothingMore ==
    \A k \in CallsOf(IsFailedBegin) :
        /\ \A j \in CallsOf(IsDrawOrDispatch) \cup CallsOf(IsBinding) : j < k
        /\ ~obs.pass.asserted

\* the draws of the last pass that were recorded
IsRecordedDraw(call) == call.op = "DrawIndexed" /\ call.ret /\ call.rec > 0
IsDraw(call) == call.op = "DrawIndexed"

\* the G-buffer pass went through its bucket
GBufferRan ==
    /\ obs.pass.name = "Pass_GBuffer"
    /\ obs.pass.compiled /\ obs.pass.pipeline_ok /\ ~obs.pass.asserted

\* the bucket holds more materials than the array has slots after slot 0
ArrayFull(bucket) == Len(bucket) > m_max_material_instances - 1

DispatchesFor(texture) ==
    { k \in 1 .. Len(obs.pass.calls) :
        /\ obs.pass.calls[k].op = "Dispatch"
        /\ obs.pass.calls[k].tex = texture
        /\ obs.pass.calls[k].rec > 0 }

\* C30: every texture that is in the request list when the pass graph starts
\* has its downsample dispatch recorded once, before any other pass, and is
\* then removed from the list and stripped of its per-mip views; the list is
\* empty afterwards
C30_RequestedMipsGeneratedOnce ==
    (obs.pass.name = "Pass_Generate_Mips" /\ ~obs.pass.asserted)
        => /\ m_textures_mip_generation = << >>
           /\ \A k \in 1 .. Len(obs.pass.requested) :
                 /\ Cardinality(DispatchesFor(obs.pass.requested[k])) = 1
                 /\ ~tex_flags[obs.pass.requested[k]].per_mip_views

----------------------------------------------------------------------------
(* Properties of the per-frame buffer                                      *)

\* C26: on the second of two consecutive ticks with the same camera and the
\* same options, the per-frame struct is the one the first tick filled,
\* nothing is copied to the per-frame buffer and m_cb_frame_offset_index
\* stays where it was
C26_UnchangedSecondTickUploadsNothing ==
    (/\ obs.fb.first.ran /\ obs.fb.second.ran
     /\ obs.fb.second.view = obs.fb.first.view
     /\ obs.fb.second.options = obs.fb.first.options)
    => /\ obs.fb.second.cpu = obs.fb.first.cpu
       /\ ~obs.fb.second.uploaded
       /\ obs.fb.second.offset_after = obs.fb.second.offset_before

----------------------------------------------------------------------------
(* Properties of a list that has been flushed                              *)

DrawOps == {"Draw", "DrawIndexed", "Dispatch"}

\* C31: when Flush(true) has returned true on a list that was Recording and
\* that has a pass begun, the Draw, DrawIndexed or Dispatch that follows
\* records its command and returns true.
C31_DrawAfterRestoringFlushRecords ==
    [][(/\ last.op = "Flush" /\ last.restore /\ last.pre = "Recording"
        /\ last.ret /\ ~last.asserted
        /\ cmd_lists[TheList].state = "Recording"
        /\ cmd_lists[TheList].pipeline # NoPipeline
        /\ last'.op \in DrawOps)
       => (last'.ret /\ last'.rec >= 1)]_vars

----------------------------------------------------------------------------
(* Properties of the ring of command lists                                 *)

\* C32: no update copies a struct into a slot of a constant buffer that a
\* command list has bound while that list is Submitted and its fence has
\* not been waited for.
C32_NoSlotOverwrittenWhileInFlight == obs.slots.overwritten = {}

\* the state of the list a tick selects, as Begin finds it
SelectedListState == cmd_lists[SelectCommandList(m_cmd_index, cb).index.lo].state

\* C33: with Present called after every tick, the list a tick selects is
\* Idle or Submitted when Begin is called on it.
C33_SelectedListIdleOrSubmitted ==
    [][(rpc = "tick_gate" /\ rpc' = "tick_scene")
       => SelectedListState \in {"Idle", "Submitted"}]_vars

----------------------------------------------------------------------------
(* Properties of rendering while a world loads                             *)

\* the positions of the render thread outside a tick, at the test of
\* m_is_rendering_allowed, or inside Renderer::Flush
BeforeGate ==
    {"idle", "tick_gate", "flush_check", "flush_cmd", "flush_clear", "on_clear"}

\* a Flush called on another thread has returned and OnWorldLoaded has not
\* run since
RenderingDisabled == epc = "returned" /\ ~m_is_rendering_allowed

\* C34: from the return of a Flush called on another thread until
\* OnWorldLoaded runs, the render thread is never in a tick past the test of
\* m_is_rendering_allowed, and no step selects a command list, enters the
\* passes or advances the frame counter; only OnWorldLoaded sets
\* m_is_rendering_allowed again.
C34_NoTickWhileRenderingDisabled ==
    /\ [](RenderingDisabled => rpc \in BeforeGate)
    /\ [][RenderingDisabled =>
            /\ m_cmd_index' = m_cmd_index
            /\ m_frame_num' = m_frame_num
            /\ rpc' \in BeforeGate
            /\ m_is_rendering_allowed' => epc' = "idle"]_vars

C34_TickGatedWitness ==
    /\ RenderingDisabled
    /\ rpc = "tick_gate"
    /\ m_cmd_index # UINT32_MAX
    /\ cmd_lists[m_cmd_current].state = "Idle"

----------------------------------------------------------------------------
(* Properties of layout transitions and render passes                      *)

\* C35: no call on a command list records a layout-transition barrier while
\* a render pass is active on the list, whether the call is SetTexture,
\* ClearRenderTarget or Blit.
C35_NoBarrierInsideRenderPass ==
    (last.op \in {"SetTexture", "ClearRenderTarget", "Blit"} /\ last.active)
        => last.bar = 0

\* C36: every layout-transition barrier names as its old layout the layout
\* the mips of its range are really in, and the tracked layout of every mip
\* is the layout of the image, also when a texture whose tracked layout is
\* Undefined is staged and given its final layout by CreateResourceGpu.
C36_BarriersNameTheRealLayout ==
    /\ ~obs.image.misnamed
    /\ \A t \in ImageTextures : tex_layout[t] = obs.image.real[t]

\* C37: after SetTexture has bound a whole texture (no mip given) that has
\* several mips and needed a transition, every mip of the texture is tracked
\* in the layout the binding requires, not only mip 0.
C37_WholeTextureBindTransitionsEveryMip ==
    (/\ last.op = "SetTexture" /\ ~last.asserted
     /\ last.args.mip = -1 /\ last.bar >= 1
     /\ last.observed \in AllTextures
     /\ TexMipCount(last.observed) > 1)
        => \A m \in 0 .. (TexMipCount(last.observed) - 1) :
              tex_layout[last.observed][m]
                  = RequiredLayout(last.observed, last.args.uav)

----------------------------------------------------------------------------
(* Properties of Blit                                                      *)

\* C38: Blit leaves the tracked layout of every mip of its source and of its
\* destination as it was before the call, whatever per-mip layouts the two
\* textures had.
C38_BlitRestoresEveryMip ==
    [][(last'.op = "Blit" /\ ~last'.asserted) => tex_layout' = tex_layout]_vars

\* a Blit has returned that recorded transitions of two textures whose mips
\* are in different layouts
C38_MixedLayoutsWitness ==
    /\ last.op = "Blit" /\ ~last.asserted /\ last.bar >= 4
    /\ tex_layout["rt1"][0] # tex_layout["rt1"][1]
    /\ tex_layout["rt2"][0] # tex_layout["rt2"][1]

----------------------------------------------------------------------------
(* Properties of the slot the back buffer is copied from                   *)

\* every pass that Pass_PostProcess called had its shaders compiled
AllStagesRan == \A i \in 1 .. Len(obs.post.log) : obs.post.log[i].ran

\* C39: when every shader is compiled then, for every combination of the
\* post-processing options, the Frame_Output slot holds at the end of
\* Pass_PostProcess the texture that the last pass of the chain wrote, which
\* is the texture Pass_CopyToBackbuffer reads; this holds on later frames
\* too, where the swaps of earlier frames persist.
C39_FrameOutputHoldsLastWrite ==
    (obs.post.ran /\ AllStagesRan)
        => m_render_targets["Frame_Output"]
              = obs.post.log[Len(obs.post.log)].tex_out

\* a later frame: the slots were left swapped by an earlier Pass_PostProcess
\* and this one ran a chain of at least three passes
C39_LaterFrameWitness ==
    /\ obs.post.ran /\ AllStagesRan
    /\ Len(obs.post.log) >= 3
    /\ obs.post.log[1].tex_in # InitRenderTargets[obs.post.log[1].slot_in]
    /\ m_render_targets["Frame_Output"] = "frame_output_2"

----------------------------------------------------------------------------
(* Properties of the BRDF specular LUT                                     *)

\* C40: the BRDF specular LUT is marked rendered only if its dispatch was
\* recorded: whenever m_brdf_specular_lut_rendered is true, a Dispatch of
\* Pass_BrdfSpecularLut has returned true in this frame or an earlier one,
\* also when the command list was flushed earlier in the frame because a
\* dynamic buffer grew.
C40_LutRenderedOnlyAfterDispatch ==
    m_brdf_specular_lut_rendered => obs.lut_dispatched

====
